---- MODULE Spec2Model ----
(***************************************************************************)
(* Metadata acquisition layer of the journal analysis tool (src/app.py):   *)
(* the Rate Limiter, the Adaptive Delayer, the retry-wrapped fetch         *)
(* functions with their cache maps, the two paginated fetches, the         *)
(* concurrent dispatch loops and the life cycle of the session's           *)
(* AnalysisState.                                                          *)
(*                                                                         *)
(* Several specifications share the variables; each one drives one part    *)
(* of the program and leaves the variables of the other parts alone:       *)
(*   SpecRL        RateLimiter.wait_if_needed under concurrent callers     *)
(*   Spec          successive analyze_journal runs of one session, their   *)
(*                 fetch calls made one at a time                          *)
(*   SpecPool      the fetch calls of one run on the pool's threads        *)
(*   SpecPage      the paginated fetches (FairSpecPage adds fairness)      *)
(*   SpecDispatch  the completed-first draining loops                      *)
(*   SpecStages    the two pools of analyze_journal and the aggregation    *)
(*   SpecLocks     the locks of the limiter and of the delayer under       *)
(*                 concurrent fetch calls                                  *)
(*   SpecFn        the pure functions of the analysis (aggregation, period *)
(*                 parsing, DOI cleaning, the metrics), each applied to    *)
(*                 inputs drawn from bounded sets                          *)
(***************************************************************************)
EXTENDS Integers, Sequences, FiniteSets, TLC

(***************************************************************************)
(* Strings are sequences of one-character strings, so that lower(),        *)
(* strip() and startswith() are computed and not assumed.                  *)
(***************************************************************************)
LowerChar(c) ==
    CASE c = "A" -> "a"
      [] c = "B" -> "b"
      [] c = "N" -> "n"
      [] OTHER -> c

Lower(s) == [i \in 1..Len(s) |-> LowerChar(s[i])]

RECURSIVE LStrip(_)
LStrip(s) == IF s # <<>> /\ Head(s) = " " THEN LStrip(Tail(s)) ELSE s

RECURSIVE RStrip(_)
RStrip(s) ==
    IF s # <<>> /\ s[Len(s)] = " " THEN RStrip(SubSeq(s, 1, Len(s) - 1)) ELSE s

Strip(s) == RStrip(LStrip(s))

StartsWith(s, p) == Len(s) >= Len(p) /\ SubSeq(s, 1, Len(p)) = p

Min(a, b) == IF a <= b THEN a ELSE b

(***************************************************************************)
(* Global settings (src/app.py:36-39).  DELAYS is in tenths of a second.   *)
(***************************************************************************)
MAX_WORKERS == 5

RETRIES == 3

DELAYS == <<2, 5, 7, 10, 13, 15, 20>>

(***************************************************************************)
(* Bounds of the model.                                                    *)
(***************************************************************************)
\* capacity N of the limiter under check (calls_per_second)
Capacity == 2
\* clock ticks per second
TicksPerSecond == 2
\* the clock stops here
MaxClock == 6
\* threads sharing the limiter
NumCallers == 2
\* pool threads running fetch calls at the same time
NumWorkers == 2
\* fetch calls made for citing works in one run; calls of a paginated fetch
MaxCalls == 2
\* runs of analyze_journal in one session
MaxRuns == 2

\* items a paginated fetch collects before the API serves only empty pages
MaxItems == 2

\* items handed to a concurrent stage
MaxTasks == 3

\* records of a metadata list
MaxRecs == 2

\* references of a record
MaxRefs == 1

\* components of a period string
MaxParts == 2

\* analyzed works of a list of counts
MaxWorks == 3

\* citing edges of one work
MaxCount == 3

\* records of a citing list
MaxEdges == 2

\* authorships of one analysed work
MaxAuths == 2

VARIABLES
    \* ---- RateLimiter ----
    clock,          \* time.time(), in ticks
    timestamps,     \* RateLimiter.timestamps
    rl_lock,        \* holder of RateLimiter.lock, 0 when free
    rl_pc,          \* per caller: "out" | "sleep" | "delay" | "dl_sleep"
    rl_now,         \* per caller: the local `now`
    rl_wake,        \* per caller: when its time.sleep returns
    admitted,       \* return times of wait_if_needed within the last second
    \* ---- AnalysisState cache maps (src/app.py:44-47) ----
    crossref_cache,
    openalex_cache,
    unified_cache,
    citing_cache,
    \* ---- AdaptiveDelayer ----
    delay_index,    \* AdaptiveDelayer.delay_index
    fails_since,    \* history: failure calls since the latest success call
    last_wait,      \* history: the latest call of wait: its argument and result
    dl_lock,        \* holder of AdaptiveDelayer.lock, 0 when free
    \* ---- fetch calls ----
    fr,             \* per thread: the frame of its fetch call
    phase,          \* stage of the run: "journal" | "unified" | "citing"
    todo,           \* unified stage: positions of the DOI list not yet started
    ncalls,         \* citing stage: fetch calls started
    run,            \* runs of analyze_journal started in the session
    excel_buffer,   \* state.excel_buffer: what the buffer holds
    analysis_complete,  \* state.analysis_complete
    analysis_results,   \* state.analysis_results: 0 for None, else the run
                        \* whose values the dict holds
    buffer_run,     \* the run that stored state.excel_buffer, 0 for none
    \* ---- paginated fetches ----
    api_mode,       \* how the API answers page requests in this behaviour
    pg,             \* the locals of the paginated fetch under way
    \* ---- concurrent dispatch ----
    d_kind,         \* which of the three draining loops
    d_items,        \* the items submitted
    d_task,         \* per item: "queued" | "running" | "returned" | "raised"
    d_drained,      \* the futures as_completed has yielded
    d_results,      \* what the loop has collected, in completion order
    d_i,            \* turns of the draining loop completed
    d_pc,           \* "drain" | "done" | "aborted"
    \* ---- aggregation and the other pure functions ----
    pf              \* the call under way: function, arguments, results

rlVars == <<clock, timestamps, rl_lock, rl_pc, rl_now, rl_wake, admitted>>

cacheVars == <<crossref_cache, openalex_cache, unified_cache, citing_cache>>

dlVars == <<delay_index, fails_since, last_wait, dl_lock>>

reportVars == <<excel_buffer, analysis_complete, analysis_results, buffer_run>>

poolVars == <<phase, todo, ncalls, run, reportVars>>

pageVars == <<api_mode, pg>>

dispVars == <<d_kind, d_items, d_task, d_drained, d_results, d_i, d_pc>>

vars == <<rlVars, cacheVars, dlVars, fr, poolVars, pageVars, dispVars, pf>>

(***************************************************************************)
(* RateLimiter (src/app.py:249-266)                                        *)
(***************************************************************************)
Callers == 1..NumCallers

\* line 258: the stamps younger than one second
Prune(ts, now) == SelectSeq(ts, LAMBDA x : now - x < TicksPerSecond)

\* line 261
SleepTime(ts, now) == TicksPerSecond - (now - ts[1])

\* the call returns: the caller goes on to its HTTP request
Admit(t) ==
    /\ admitted' = Append(admitted, clock)
    /\ rl_lock' = 0
    /\ rl_pc' = [rl_pc EXCEPT ![t] = "out"]

RLInit ==
    /\ clock = 0
    /\ timestamps = <<>>
    /\ rl_lock = 0
    /\ rl_pc = [t \in Callers |-> "out"]
    /\ rl_now = [t \in Callers |-> 0]
    /\ rl_wake = [t \in Callers |-> 0]
    /\ admitted = <<>>

\* the variables the limiter leaves alone
RLFrame == UNCHANGED <<cacheVars, dlVars, fr, poolVars, pageVars, dispVars, pf>>

\* lines 256-266 when the window has room: record `now` and return
RLPass(t) ==
    /\ rl_pc[t] = "out"
    /\ rl_lock = 0
    /\ Len(Prune(timestamps, clock)) < Capacity
    /\ timestamps' = Append(Prune(timestamps, clock), clock)
    /\ rl_now' = [rl_now EXCEPT ![t] = clock]
    /\ Admit(t)
    /\ UNCHANGED <<clock, rl_wake>>
    /\ RLFrame

\* lines 256-263 when the window is full: sleep, holding the lock
RLBlock(t) ==
    /\ rl_pc[t] = "out"
    /\ rl_lock = 0
    /\ Len(Prune(timestamps, clock)) >= Capacity
    /\ timestamps' = Prune(timestamps, clock)
    /\ rl_now' = [rl_now EXCEPT ![t] = clock]
    /\ rl_wake' = [rl_wake EXCEPT ![t] = clock + SleepTime(Prune(timestamps, clock), clock)]
    /\ rl_lock' = t
    /\ rl_pc' = [rl_pc EXCEPT ![t] = "sleep"]
    /\ UNCHANGED <<clock, admitted>>
    /\ RLFrame

\* lines 264-266 after the sleep: drop the oldest stamp, record the `now`
\* read before the sleep, release the lock and return
RLWake(t) ==
    /\ rl_pc[t] = "sleep"
    /\ clock >= rl_wake[t]
    /\ timestamps' = Append(Tail(timestamps), rl_now[t])
    /\ Admit(t)
    /\ UNCHANGED <<clock, rl_now, rl_wake>>
    /\ RLFrame

\* time passes; admissions older than one second leave the log
Tick ==
    /\ clock < MaxClock
    /\ clock' = clock + 1
    /\ admitted' = SelectSeq(admitted, LAMBDA a : (clock + 1) - a < TicksPerSecond)
    /\ UNCHANGED <<timestamps, rl_lock, rl_pc, rl_now, rl_wake>>
    /\ RLFrame

(***************************************************************************)
(* Keys and payloads                                                       *)
(***************************************************************************)
\* "10." : the prefix a validated DOI starts with (line 352)
TenDot == <<"1", "0", ".">>

\* a DOI in its normalized form, "10.a"
DoiA == TenDot \o <<"a">>

\* the form in which the graph API gives a work's DOI (w['doi'], line 475)
DoiOrg == <<"h", "t", "t", "p", "s", ":", "/", "/", "d", "o", "i", ".", "o", "r", "g", "/">>

UrlA == DoiOrg \o DoiA

\* the placeholder the fetch functions refuse (lines 396, 418, 442)
NA == <<"N", "/", "A">>

\* the key under which get_journal_name keeps its names (lines 371, 383)
JournalsKey == <<"j", "o", "u", "r", "n", "a", "l", "s">>

Issn1 == <<"1", "2", "-", "3", "x">>

\* the DOI strings of the articles the registry returned for the journal
RawItems ==
    << [DOI |-> <<" ">> \o TenDot \o <<"A">>, year |-> 2020],
       [DOI |-> DoiOrg \o DoiA, year |-> 2021],
       [DOI |-> <<>>, year |-> 2021],
       [DOI |-> TenDot \o <<"c">>, year |-> 1800] >>

\* a validation that keeps the DOI as the registry gave it
RECURSIVE ValidateKeepsRaw(_)
ValidateKeepsRaw(items) ==
    IF items = <<>> THEN <<>>
    ELSE LET item == Head(items)
             doi == Strip(Lower(item.DOI))
             rest == ValidateKeepsRaw(Tail(items))
         IN  IF item.DOI = <<>> \/ ~StartsWith(doi, TenDot) \/ item.year < 1900
             THEN rest
             ELSE <<item>> \o rest

RECURSIVE validate_and_clean_data(_)
\* lines 342-366: an item is kept, with its DOI lowercased and trimmed, when
\* it has a DOI that then starts with "10." and a creation year >= 1900
validate_and_clean_data(items) ==
    IF items = <<>> THEN <<>>
    ELSE LET item == Head(items)
             doi == Strip(Lower(item.DOI))
             rest == validate_and_clean_data(Tail(items))
         IN  IF item.DOI = <<>> THEN rest
             ELSE IF ~StartsWith(doi, TenDot) THEN rest
             ELSE IF item.year < 1900 THEN rest
             ELSE <<[item EXCEPT !.DOI = doi]>> \o rest

\* lines 344-360: skipped_count, one for each item left out
RECURSIVE SkippedCount(_)
SkippedCount(items) ==
    IF items = <<>> THEN 0
    ELSE LET item == Head(items)
             doi == Strip(Lower(item.DOI))
         IN  (IF item.DOI = <<>> THEN 1
              ELSE IF ~StartsWith(doi, TenDot) THEN 1
              ELSE IF item.year < 1900 THEN 1
              ELSE 0) + SkippedCount(Tail(items))

\* analyze_journal line 4102: the DOIs handed to get_unified_metadata
dois ==
    LET v == validate_and_clean_data(RawItems)
    IN  [i \in 1..Len(v) |-> v[i].DOI]

AnalyzedDois == {dois[i] : i \in 1..Len(dois)}

\* what the graph API may give as the DOI of a citing work: any non-empty string
CitingDois == {UrlA, NA}

\* the outcomes of one HTTP attempt: requests.get raises; a status other than
\* 200; 200 with a body that is no JSON; 200 with JSON that lacks the payload
\* (no 'message', or meta.count = 0); 200 with the payload of an entity that
\* nothing cites (cited_by_count = 0); 200 with the payload of a cited entity
RespKinds == {"raise", "non200", "200bad", "200empty", "200zero", "200ok"}

\* the attempt got HTTP 200 with the payload
FullPayload(r) == r \in {"200zero", "200ok"}

\* the attempt got HTTP 200 with parseable JSON
Parseable200(r) == r \in {"200empty", "200zero", "200ok"}

\* the attempt got a status other than 200, or raised
Non200OrRaise(r) == r \in {"raise", "non200"}

(***************************************************************************)
(* AdaptiveDelayer (src/app.py:271-284)                                    *)
(***************************************************************************)
LastIndex == Len(DELAYS) - 1

\* a delayer whose failure path climbs two steps at once
AdaptiveDelayerWaitSkip(idx, success) ==
    IF success THEN 0 ELSE Min(idx + 2, LastIndex)

\* a delayer whose success path leaves the index where it is
AdaptiveDelayerWaitNoReset(idx, success) ==
    IF success THEN idx ELSE Min(idx + 1, LastIndex)

\* lines 278-281: the index after wait(success)
AdaptiveDelayerWait(idx, success) ==
    IF success THEN 0 ELSE Min(idx + 1, LastIndex)

\* line 282: DELAYS[self.delay_index]
Delay(idx) == DELAYS[idx + 1]

\* the whole of wait(success), by thread t: under the lock, move the index,
\* sleep for the delay and return it
DelayerWait(t, success) ==
    /\ delay_index' = AdaptiveDelayerWait(delay_index, success)
    /\ fails_since' = IF success THEN 0 ELSE fails_since + 1
    /\ last_wait' = [success |-> success,
                     delay |-> Delay(AdaptiveDelayerWait(delay_index, success))]
    /\ UNCHANGED dl_lock

DelayerInit ==
    /\ delay_index = 0
    /\ fails_since = 0
    /\ last_wait = [success |-> TRUE, delay |-> 0]
    /\ dl_lock = 0

(***************************************************************************)
(* Single-entity fetch functions (src/app.py:369-434)                      *)
(***************************************************************************)
Workers == 1..NumWorkers

CacheInit ==
    /\ crossref_cache = <<>>
    /\ openalex_cache = <<>>
    /\ unified_cache = <<>>
    /\ citing_cache = <<>>

Put(cache, k, v) == (k :> v) @@ cache

\* lines 371, 394, 416: the cache check of fetch function fn
InCache(fn, k) ==
    CASE fn = "journal" ->
            /\ JournalsKey \in DOMAIN crossref_cache
            /\ k \in DOMAIN crossref_cache[JournalsKey]
      [] fn = "crossref" -> k \in DOMAIN crossref_cache
      [] fn = "openalex" -> k \in DOMAIN openalex_cache

Cached(fn, k) ==
    CASE fn = "journal" -> crossref_cache[JournalsKey][k]
      [] fn = "crossref" -> crossref_cache[k]
      [] fn = "openalex" -> openalex_cache[k]

\* lines 396, 418: `if not doi or doi == 'N/A': return None`
Refused(fn, k) == fn # "journal" /\ (k = <<>> \/ k = NA)

\* lines 378-381, 404-405, 426-427: does the attempt reach the cache store
Succeeds(fn, r) ==
    CASE fn = "journal" -> FullPayload(r)
      [] fn = "crossref" -> FullPayload(r)
      [] fn = "openalex" -> Parseable200(r)

\* what a successful attempt stores and returns
Payload(fn, r) ==
    CASE fn = "journal" -> "display_name"
      [] fn = "crossref" -> "message"
      [] fn = "openalex" -> CASE r = "200ok" -> "work"
                              [] r = "200zero" -> "work0"
                              [] OTHER -> "empty_json"

\* lines 390, 412, 434: what the call returns when the attempts are used up
Sentinel(fn) == IF fn = "journal" THEN "journal_not_found" ELSE "None"

\* a retry loop that gives up one attempt early
LoopEndsEarly(attempt) == attempt = RETRIES - 1

\* lines 374, 400, 422: `for _ in range(RETRIES)` has no turn left
LoopEnds(attempt) == attempt = RETRIES

IdleFrame ==
    [pc |-> "idle", fn |-> "none", key |-> <<>>, outer |-> "none",
     attempt |-> 0, ok |-> FALSE, result |-> "None", cr_data |-> "None",
     uncached |-> FALSE, nreq |-> 0, nfail |-> 0, nsucc |-> 0,
     stored |-> FALSE, all_failed |-> TRUE, first200 |-> 0, refetch |-> FALSE]

\* the call of fetch function fn on key k: the frame after the cache check
\* and the guard.  The fields from `uncached` on are the history of the call.
Enter(f, fn, k) ==
    [f EXCEPT !.fn = fn, !.key = k, !.attempt = 0, !.ok = FALSE,
              !.nreq = 0, !.nfail = 0, !.nsucc = 0, !.stored = FALSE,
              !.all_failed = TRUE, !.first200 = 0, !.refetch = FALSE,
              !.uncached = ~InCache(fn, k),
              !.pc = IF InCache(fn, k) \/ Refused(fn, k) THEN "done" ELSE "loop",
              !.result = IF InCache(fn, k) THEN Cached(fn, k) ELSE "None"]

\* the cache after fetch function fn stored payload v for key k
\* (lines 382-384, 406, 428)
StoreCrossref(fn, k, v) ==
    CASE fn = "journal" ->
            Put(crossref_cache, JournalsKey,
                Put(IF JournalsKey \in DOMAIN crossref_cache
                    THEN crossref_cache[JournalsKey] ELSE <<>>, k, v))
      [] fn = "crossref" -> Put(crossref_cache, k, v)
      [] fn = "openalex" -> crossref_cache

StoreOpenalex(fn, k, v) ==
    IF fn = "openalex" THEN Put(openalex_cache, k, v) ELSE openalex_cache

\* One attempt of the retry loop up to the call of the delayer (lines
\* 376-384, 402-406, 424-428): wait_if_needed, the HTTP request, its outcome
\* r, and on success the cache store.
Attempt(t, r) ==
    LET f == fr[t]
        good == Succeeds(f.fn, r)
    IN  /\ f.pc = "loop"
        /\ crossref_cache' =
              IF good THEN StoreCrossref(f.fn, f.key, Payload(f.fn, r))
              ELSE crossref_cache
        /\ openalex_cache' =
              IF good THEN StoreOpenalex(f.fn, f.key, Payload(f.fn, r))
              ELSE openalex_cache
        /\ fr' = [fr EXCEPT ![t] =
              [f EXCEPT !.pc = "wait", !.ok = good,
                        !.attempt = f.attempt + 1,
                        !.nreq = f.nreq + 1,
                        !.refetch = f.refetch \/ InCache(f.fn, f.key),
                        !.all_failed = f.all_failed /\ Non200OrRaise(r),
                        !.first200 = IF f.first200 = 0 /\ Parseable200(r)
                                     THEN f.nreq + 1 ELSE f.first200,
                        !.stored = f.stored \/ good,
                        !.result = IF good THEN Payload(f.fn, r) ELSE f.result]]
        /\ UNCHANGED <<unified_cache, citing_cache, dlVars>>

\* The call of the delayer that ends the attempt, and what follows it:
\* delayer.wait(success=True) and return (lines 385-386, 407-408, 429-430),
\* or delayer.wait(success=False) and the next turn of the loop, or the
\* sentinel after the last one (lines 389-390, 411-412, 433-434).
AfterAttempt(t) ==
    LET f == fr[t]
    IN  /\ f.pc = "wait"
        /\ DelayerWait(t, f.ok)
        /\ fr' = [fr EXCEPT ![t] =
              IF f.ok
              THEN [f EXCEPT !.pc = "done", !.nsucc = f.nsucc + 1]
              ELSE [f EXCEPT !.nfail = f.nfail + 1,
                             !.pc = IF LoopEnds(f.attempt) THEN "done" ELSE "loop",
                             !.result = IF LoopEnds(f.attempt)
                                        THEN Sentinel(f.fn) ELSE f.result]]
        /\ UNCHANGED cacheVars

(***************************************************************************)
(* The runs of one session (main and analyze_journal, src/app.py:4038-4162 *)
(* and 4310-4441).  A run looks up the journal name, then calls            *)
(* get_unified_metadata for each validated DOI and, past the barrier of    *)
(* line 4133, makes the fetches of get_citing_dois_and_metadata for        *)
(* analyzed and citing DOIs.  Spec runs the calls one at a time on thread  *)
(* Main, run after run; SpecPool runs those of one run on the pool's       *)
(* threads.                                                                *)
(***************************************************************************)
Main == 1

\* no page response at hand
NoResp == [kind |-> "none", items |-> <<>>, cursor |-> "", meta |-> TRUE]

\* no paginated fetch under way; `bound` tells whether new_items has been
\* assigned, `requested` whether the call has made a page request, `mark` is
\* the length of the list when the attempt under way began and `once` the
\* records of the pages fetched so far, each page taken one time;
\* `exhausted` maps the DOIs whose citing fetch gave up on a page to the list
\* stored then, and `later` tells a call made for such a DOI
IdlePage ==
    [pc |-> "idle", fn |-> "none", doi |-> <<>>, items |-> <<>>,
     cursor |-> "", attempt |-> 0, ok |-> FALSE, success |-> FALSE,
     new_items |-> <<>>, bound |-> FALSE, pending |-> <<>>, resp |-> NoResp,
     ret |-> <<>>, oa_data |-> "unset", requested |-> FALSE,
     mark |-> 0, once |-> <<>>, exhausted |-> <<>>, later |-> FALSE]

\* the paginated fetches and the draining loops at rest
NoPaging == api_mode = "any" /\ pg = IdlePage

NoDispatch ==
    /\ d_kind = "none"
    /\ d_items = <<>>
    /\ d_task = <<>>
    /\ d_drained = {}
    /\ d_results = <<>>
    /\ d_i = 0
    /\ d_pc = "done"

\* AnalysisState.__init__ (lines 53-54): no report yet
NoReport ==
    /\ excel_buffer = "None"
    /\ analysis_complete = FALSE
    /\ analysis_results = 0
    /\ buffer_run = 0

\* no aggregation call under way
NoCall == pf = [pc |-> "idle"]

\* initialize_analysis_state (lines 233-235): the session's AnalysisState,
\* created once; and the module's delayer (line 286)
SessionInit ==
    /\ RLInit
    /\ NoPaging
    /\ NoDispatch
    /\ NoCall
    /\ CacheInit
    /\ DelayerInit
    /\ fr = [t \in Workers |-> IdleFrame]
    /\ phase = "ready"
    /\ todo = {}
    /\ ncalls = 0
    /\ run = 0
    /\ NoReport

\* a run that leaves the flag of the run before it
CompleteKept(complete) == complete

\* line 4043: state.analysis_complete = False
CompleteAtStart(complete) == FALSE

\* analyze_journal up to the journal name (lines 4038-4076): a new delayer,
\* the session's state object as it is
AnalyzeJournal ==
    /\ phase = "ready"
    /\ run < MaxRuns
    /\ run' = run + 1
    /\ delay_index' = 0
    /\ fails_since' = 0
    /\ last_wait' = [success |-> TRUE, delay |-> 0]
    /\ dl_lock' = 0
    /\ phase' = "journal"
    /\ todo' = DOMAIN dois
    /\ ncalls' = 0
    /\ analysis_complete' = CompleteAtStart(analysis_complete)
    /\ UNCHANGED <<rlVars, pageVars, dispVars, pf, cacheVars, fr, excel_buffer,
                   analysis_results, buffer_run>>

\* line 4077: get_journal_name(issn), on the main thread
StartJournal ==
    /\ phase = "journal"
    /\ fr[Main].pc = "idle"
    /\ fr' = [fr EXCEPT ![Main] = Enter(IdleFrame, "journal", Issn1)]
    /\ UNCHANGED <<rlVars, pageVars, dispVars, pf, cacheVars, dlVars, poolVars>>

\* get_unified_metadata(doi) up to its first fetch (lines 437-445), for the
\* DOI at position i of the list
StartUnified(t, i) ==
    /\ phase = "unified"
    /\ i \in todo
    /\ fr[t].pc = "idle"
    /\ todo' = todo \ {i}
    /\ fr' = [fr EXCEPT ![t] =
          IF dois[i] \in DOMAIN unified_cache \/ Refused("unified", dois[i])
          THEN IdleFrame
          ELSE Enter([IdleFrame EXCEPT !.outer = "unified"], "crossref", dois[i])]
    /\ UNCHANGED <<rlVars, pageVars, dispVars, pf, cacheVars, dlVars, phase, ncalls, run, reportVars>>

\* line 4133: the pool of the unified stage is joined
Barrier ==
    /\ phase = "unified"
    /\ todo = {}
    /\ \A t \in Workers : fr[t].pc = "idle"
    /\ phase' = "citing"
    /\ UNCHANGED <<rlVars, pageVars, dispVars, pf, cacheVars, dlVars, fr, todo, ncalls, run, reportVars>>

\* a fetch made by get_citing_dois_and_metadata: get_openalex_metadata of the
\* analyzed DOI (line 458), get_crossref_metadata and get_openalex_metadata
\* of a citing DOI (lines 478, 480)
StartDirect(t, fn, k) ==
    /\ phase = "citing"
    /\ ncalls < MaxCalls
    /\ fr[t].pc = "idle"
    /\ fn = "openalex" \/ k \in CitingDois
    /\ ncalls' = ncalls + 1
    /\ fr' = [fr EXCEPT ![t] = Enter(IdleFrame, fn, k)]
    /\ UNCHANGED <<rlVars, pageVars, dispVars, pf, cacheVars, dlVars, phase, todo, run, reportVars>>

\* the fetch function returns to its caller
Return(t) ==
    LET f == fr[t]
    IN  /\ f.pc = "done"
        /\ IF f.outer = "unified" /\ f.fn = "crossref"
           THEN \* lines 445-446
                /\ fr' = [fr EXCEPT ![t] =
                      Enter([f EXCEPT !.cr_data = f.result], "openalex", f.key)]
                /\ UNCHANGED <<unified_cache, phase>>
           ELSE IF f.outer = "unified"
           THEN \* lines 448-450
                /\ unified_cache' = Put(unified_cache, f.key,
                      [crossref |-> f.cr_data, openalex |-> f.result])
                /\ fr' = [fr EXCEPT ![t] = IdleFrame]
                /\ UNCHANGED phase
           ELSE /\ fr' = [fr EXCEPT ![t] = IdleFrame]
                /\ phase' = IF phase = "journal" THEN "unified" ELSE phase
                /\ UNCHANGED unified_cache
        /\ UNCHANGED <<rlVars, pageVars, dispVars, pf, crossref_cache, openalex_cache, citing_cache,
                       dlVars, todo, ncalls, run, reportVars>>

\* what create_enhanced_excel_report (lines 2758-3442) leaves in the buffer,
\* given whether the writer of the full report raises and whether the writer
\* of the one-sheet error report raises
create_enhanced_excel_report(full_raises, minimal_raises) ==
    IF ~full_raises THEN [ret |-> TRUE, buffer |-> "full_report"]
    ELSE IF ~minimal_raises THEN [ret |-> TRUE, buffer |-> "error_report"]
    ELSE [ret |-> FALSE, buffer |-> "no_workbook"]

\* lines 4244-4259: the report is written and the buffer is stored in the
\* state, whatever create_enhanced_excel_report returned
CreateReport(full_raises, minimal_raises) ==
    /\ phase = "citing"
    /\ \A t \in Workers : fr[t].pc = "idle"
    /\ phase' = "report"
    /\ excel_buffer' =
          create_enhanced_excel_report(full_raises, minimal_raises).buffer
    /\ buffer_run' = run
    /\ UNCHANGED <<rlVars, pageVars, dispVars, pf, cacheVars, dlVars, fr,
                   todo, ncalls, run, analysis_complete, analysis_results>>

\* lines 4265-4288: the results are saved, the run is marked complete and
\* analyze_journal returns
MarkComplete ==
    /\ phase = "report"
    /\ analysis_results' = run
    /\ analysis_complete' = TRUE
    /\ phase' = "ready"
    /\ UNCHANGED <<rlVars, pageVars, dispVars, pf, cacheVars, dlVars, fr,
                   todo, ncalls, run, excel_buffer, buffer_run>>

\* the pools are joined and an exception of the aggregation (lines
\* 4176-4187) ends analyze_journal before the report
EndRun ==
    /\ phase = "citing"
    /\ \A t \in Workers : fr[t].pc = "idle"
    /\ phase' = "ready"
    /\ UNCHANGED <<rlVars, pageVars, dispVars, pf, cacheVars, dlVars, fr, todo, ncalls, run, reportVars>>

\* analyze_journal ends before line 4284: parse_period gave no year (line
\* 4068-4069), the article fetch gave no item (lines 4084-4086), or an
\* exception leaves the function after the buffer was stored (4259-4283)
ReturnsEarly(why) ==
    /\ \A t \in Workers : fr[t].pc = "idle"
    /\ CASE why = "no_years" -> phase = "journal"
         [] why = "no_articles" -> phase = "unified" /\ todo = DOMAIN dois
         [] why = "exception" -> phase = "report"
    /\ phase' = "ready"
    /\ UNCHANGED <<rlVars, pageVars, dispVars, pf, cacheVars, dlVars, fr, todo, ncalls, run, reportVars>>

\* a thread makes one attempt of its fetch call
WorkerAttempt(t, r) == Attempt(t, r) /\ UNCHANGED <<rlVars, pageVars, dispVars, pf, poolVars>>

\* a thread calls the delayer after its attempt
WorkerAfterAttempt(t) == AfterAttempt(t) /\ UNCHANGED <<rlVars, pageVars, dispVars, pf, poolVars>>

Next ==
    \/ AnalyzeJournal
    \/ StartJournal
    \/ \E i \in DOMAIN dois : StartUnified(Main, i)
    \/ Barrier
    \/ \E fn \in {"crossref", "openalex"}, k \in CitingDois \cup AnalyzedDois :
          StartDirect(Main, fn, k)
    \/ \E r \in RespKinds : WorkerAttempt(Main, r)
    \/ WorkerAfterAttempt(Main)
    \/ Return(Main)
    \/ \E full_raises, minimal_raises \in BOOLEAN :
          CreateReport(full_raises, minimal_raises)
    \/ MarkComplete
    \/ EndRun
    \/ \E why \in {"no_years", "no_articles", "exception"} : ReturnsEarly(why)

Spec == SessionInit /\ [][Next]_vars

\* the outcomes of an attempt that the pool's threads are given
PoolResps == {"non200", "200ok"}

\* the first run of a session, entered
PoolInit ==
    /\ RLInit
    /\ NoPaging
    /\ NoDispatch
    /\ NoCall
    /\ CacheInit
    /\ DelayerInit
    /\ fr = [t \in Workers |-> IdleFrame]
    /\ phase = "journal"
    /\ todo = DOMAIN dois
    /\ ncalls = 0
    /\ run = 1
    /\ NoReport

PoolNext ==
    \/ StartJournal
    \/ \E t \in Workers, i \in DOMAIN dois : StartUnified(t, i)
    \/ Barrier
    \/ \E t \in Workers, fn \in {"crossref", "openalex"},
          k \in CitingDois \cup AnalyzedDois : StartDirect(t, fn, k)
    \/ \E t \in Workers, r \in PoolResps : WorkerAttempt(t, r)
    \/ \E t \in Workers : WorkerAfterAttempt(t)
    \/ \E t \in Workers : Return(t)

SpecPool == PoolInit /\ [][PoolNext]_vars

(***************************************************************************)
(* Paginated fetches: fetch_articles_by_issn_period (src/app.py:565-619)   *)
(* and get_citing_dois_and_metadata (src/app.py:453-497), run on thread    *)
(* Main.  A page response either fails before anything is collected (an    *)
(* exception, a status other than 200, a body that is not the expected     *)
(* JSON), or is a 200 with a list of items and a next cursor ("" when the  *)
(* cursor is absent); a 200 of the citing fetch may also lack 'meta'.      *)
(***************************************************************************)
ApiModes == {"any", "empty_with_cursor"}

FailedPage == [kind |-> "fail", items |-> <<>>, cursor |-> "", meta |-> TRUE]

\* the item lists a page may carry
Pages(fn) ==
    IF fn = "articles" THEN {<<>>, <<RawItems[1]>>}
    ELSE {<<>>, <<[doi |-> UrlA]>>, <<[doi |-> <<>>]>>}

\* the answers the API may give to a page request
PageResponses(fn, mode, sofar) ==
    IF mode = "empty_with_cursor"
    THEN {[kind |-> "200", items |-> <<>>, cursor |-> "c", meta |-> TRUE]}
    ELSE {FailedPage} \cup
         {[kind |-> "200", items |-> its, cursor |-> cur, meta |-> m] :
             its \in (IF Len(sofar) < MaxItems THEN Pages(fn) ELSE {<<>>}),
             cur \in {"", "c"},
             m \in (IF fn = "citing" THEN BOOLEAN ELSE {TRUE})}

AllPageResponses ==
    UNION {PageResponses(fn, mode, <<>>) :
              fn \in {"articles", "citing"}, mode \in ApiModes}

\* dict.get(k) of lines 484-485
Get(cache, k) == IF k \in DOMAIN cache THEN cache[k] ELSE "None"

\* lines 586-606: the for loop is over, by `break` or by exhaustion
ForLoopLeft(p) == p.ok \/ LoopEnds(p.attempt)

\* the empty-page check placed before the test of success
ChecksBeforeSuccess(p) == p.fn = "articles" /\ ForLoopLeft(p)

\* lines 607-609: line 609 reads new_items, and is reached only when line
\* 607 has not left the loop, that is with success
ChecksEmptyPage(p) == p.fn = "articles" /\ ForLoopLeft(p) /\ p.ok

\* line 609: `if not new_items: break`, which only the article fetch has
EmptyPageBreaks(p) == ChecksEmptyPage(p) /\ p.new_items = <<>>

\* after the delayer call that ends an attempt: is the while loop left
\* (lines 583, 607-609 and 466, 493-494)
LeavesLoop(p) ==
    \/ EmptyPageBreaks(p)
    \/ IF p.ok THEN p.cursor = "" ELSE LoopEnds(p.attempt)

PageFrame ==
    UNCHANGED <<rlVars, phase, todo, run, reportVars, dispVars, pf, api_mode>>

\* lines 565-586: the article fetch is called and enters its loop
StartArticles ==
    /\ pg.pc \in {"idle", "returned"}
    /\ ncalls < MaxCalls
    /\ ncalls' = ncalls + 1
    /\ pg' = [IdlePage EXCEPT !.fn = "articles", !.cursor = "*", !.pc = "try",
                               !.exhausted = pg.exhausted]
    /\ UNCHANGED <<cacheVars, dlVars, fr>>
    /\ PageFrame

\* lines 453-458: the citing fetch is called: the cache check, then
\* get_openalex_metadata of the analyzed DOI
StartCiting(doi) ==
    /\ pg.pc \in {"idle", "returned"}
    /\ ncalls < MaxCalls
    /\ ncalls' = ncalls + 1
    /\ IF doi \in DOMAIN citing_cache
       THEN /\ pg' = [IdlePage EXCEPT !.fn = "citing", !.doi = doi,
                                      !.pc = "returned",
                                      !.ret = citing_cache[doi],
                                      !.exhausted = pg.exhausted,
                                      !.later = doi \in DOMAIN pg.exhausted]
            /\ UNCHANGED fr
       ELSE /\ pg' = [IdlePage EXCEPT !.fn = "citing", !.doi = doi,
                                      !.pc = "oa",
                                      !.exhausted = pg.exhausted,
                                      !.later = doi \in DOMAIN pg.exhausted]
            /\ fr' = [fr EXCEPT ![Main] =
                  Enter([IdleFrame EXCEPT !.outer = "citing"], "openalex", doi)]
    /\ UNCHANGED <<cacheVars, dlVars>>
    /\ PageFrame

\* a test of the graph record that forgets the citation count
OnlyMissing(oa_data) == oa_data \in {"None", "empty_json"}

\* line 459: `not oa_data or oa_data.get('cited_by_count', 0) == 0`
NothingCites(oa_data) ==
    oa_data \in {"None", "empty_json"} \/ oa_data = "work0"

\* lines 458-466: without a work that is cited the empty list is cached and
\* returned, otherwise the loop is entered
CitingAfterOa ==
    /\ pg.pc = "oa"
    /\ fr[Main].pc = "done"
    /\ fr' = [fr EXCEPT ![Main] = IdleFrame]
    /\ IF NothingCites(fr[Main].result)
       THEN /\ citing_cache' = Put(citing_cache, pg.doi, <<>>)
            /\ pg' = [pg EXCEPT !.pc = "returned", !.ret = <<>>,
                                !.oa_data = fr[Main].result]
       ELSE /\ pg' = [pg EXCEPT !.cursor = "*", !.pc = "try",
                                !.oa_data = fr[Main].result]
            /\ UNCHANGED citing_cache
    /\ UNCHANGED <<crossref_cache, openalex_cache, unified_cache, dlVars>>
    /\ UNCHANGED ncalls
    /\ PageFrame

\* one page request and its answer (lines 587-594 and 469-473)
PageAttempt(resp) ==
    /\ pg.pc = "try"
    /\ resp \in PageResponses(pg.fn, api_mode, pg.items)
    /\ pg' =
          IF resp.kind = "fail"
          THEN [pg EXCEPT !.attempt = pg.attempt + 1, !.ok = FALSE,
                          !.requested = TRUE, !.pc = "wait"]
          ELSE IF pg.fn = "articles"
          THEN [pg EXCEPT !.attempt = pg.attempt + 1, !.ok = TRUE,
                          !.requested = TRUE,
                          !.new_items = resp.items, !.bound = TRUE,
                          !.items = pg.items \o resp.items,
                          !.mark = Len(pg.items),
                          !.once = pg.once \o resp.items,
                          !.cursor = resp.cursor, !.pc = "wait"]
          ELSE [pg EXCEPT !.attempt = pg.attempt + 1,
                          !.requested = TRUE,
                          !.mark = Len(pg.items),
                          !.pending = resp.items, !.resp = resp,
                          !.pc = "item"]
    /\ UNCHANGED <<cacheVars, dlVars, fr>>
    /\ UNCHANGED ncalls
    /\ PageFrame

\* lines 474-478: the next work of the page; get_crossref_metadata of its
\* DOI unless the DOI is a key of crossref_cache
ItemCrossref ==
    /\ pg.pc = "item"
    /\ pg.pending # <<>>
    /\ LET c_doi == Head(pg.pending).doi
       IN  IF c_doi = <<>>
           THEN /\ pg' = [pg EXCEPT !.pending = Tail(pg.pending)]
                /\ UNCHANGED fr
           ELSE IF c_doi \notin DOMAIN crossref_cache
           THEN /\ pg' = [pg EXCEPT !.pc = "item_cr"]
                /\ fr' = [fr EXCEPT ![Main] =
                      Enter([IdleFrame EXCEPT !.outer = "citing"],
                            "crossref", c_doi)]
           ELSE /\ pg' = [pg EXCEPT !.pc = "item2"]
                /\ UNCHANGED fr
    /\ UNCHANGED <<cacheVars, dlVars>>
    /\ UNCHANGED ncalls
    /\ PageFrame

\* lines 479-480: get_openalex_metadata of the work's DOI unless the DOI is
\* a key of openalex_cache
ItemOpenalex ==
    /\ pg.pc = "item2"
    /\ LET c_doi == Head(pg.pending).doi
       IN  IF c_doi \notin DOMAIN openalex_cache
           THEN /\ pg' = [pg EXCEPT !.pc = "item_oa"]
                /\ fr' = [fr EXCEPT ![Main] =
                      Enter([IdleFrame EXCEPT !.outer = "citing"],
                            "openalex", c_doi)]
           ELSE /\ pg' = [pg EXCEPT !.pc = "item3"]
                /\ UNCHANGED fr
    /\ UNCHANGED <<cacheVars, dlVars>>
    /\ UNCHANGED ncalls
    /\ PageFrame

\* the fetch of lines 478 or 480 returns
NestedReturn ==
    /\ pg.pc \in {"item_cr", "item_oa"}
    /\ fr[Main].pc = "done"
    /\ fr' = [fr EXCEPT ![Main] = IdleFrame]
    /\ pg' = [pg EXCEPT !.pc = IF pg.pc = "item_cr" THEN "item2" ELSE "item3"]
    /\ UNCHANGED <<cacheVars, dlVars>>
    /\ UNCHANGED ncalls
    /\ PageFrame

\* lines 481-486: the citing record is appended
ItemAppend ==
    /\ pg.pc = "item3"
    /\ LET c_doi == Head(pg.pending).doi
       IN  pg' = [pg EXCEPT
                     !.items = Append(pg.items,
                        [doi |-> c_doi,
                         crossref |-> Get(crossref_cache, c_doi),
                         openalex |-> Get(openalex_cache, c_doi)]),
                     !.pending = Tail(pg.pending),
                     !.pc = "item"]
    /\ UNCHANGED <<cacheVars, dlVars, fr>>
    /\ UNCHANGED ncalls
    /\ PageFrame

\* line 487: cursor = data['meta'].get('next_cursor'), a KeyError when the
\* body has no 'meta'
PageEnd ==
    /\ pg.pc = "item"
    /\ pg.pending = <<>>
    /\ pg' = IF pg.resp.meta
             THEN [pg EXCEPT !.cursor = pg.resp.cursor, !.ok = TRUE,
                             !.once = pg.once \o
                                 SubSeq(pg.items, pg.mark + 1, Len(pg.items)),
                             !.resp = NoResp, !.pc = "wait"]
             ELSE [pg EXCEPT !.ok = FALSE, !.resp = NoResp, !.pc = "wait"]
    /\ UNCHANGED <<cacheVars, dlVars, fr>>
    /\ UNCHANGED ncalls
    /\ PageFrame

\* a store that is skipped when the last page failed
StoredOnSuccess(p) ==
    IF p.ok THEN Put(citing_cache, p.doi, p.items) ELSE citing_cache

\* line 495: state.citing_cache[analyzed_doi] = citing_list, on every way
\* out of the while loop
StoredCiting(p) == Put(citing_cache, p.doi, p.items)

\* the delayer call that ends the attempt and what follows it (lines
\* 602-609 and 488-497): the next attempt, the next page, or the return
PageAfterAttempt ==
    /\ pg.pc = "wait"
    /\ DelayerWait(Main, pg.ok)
    /\ IF LeavesLoop(pg)
       THEN /\ pg' = [pg EXCEPT !.success = pg.ok, !.pc = "returned",
                                !.ret = pg.items,
                                !.exhausted =
                                    IF pg.fn = "citing" /\ ~pg.ok
                                    THEN Put(pg.exhausted, pg.doi, pg.items)
                                    ELSE pg.exhausted]
            /\ citing_cache' = IF pg.fn = "citing"
                               THEN StoredCiting(pg)
                               ELSE citing_cache
       ELSE /\ pg' = IF pg.ok
                     THEN [pg EXCEPT !.success = FALSE, !.attempt = 0,
                                     !.ok = FALSE, !.pc = "try"]
                     ELSE [pg EXCEPT !.pc = "try"]
            /\ UNCHANGED citing_cache
    /\ UNCHANGED <<crossref_cache, openalex_cache, unified_cache, fr>>
    /\ UNCHANGED ncalls
    /\ PageFrame

PageInit ==
    /\ RLInit
    /\ NoCall
    /\ api_mode \in ApiModes
    /\ pg = IdlePage
    /\ NoDispatch
    /\ CacheInit
    /\ DelayerInit
    /\ fr = [t \in Workers |-> IdleFrame]
    /\ phase = "ready"
    /\ todo = {}
    /\ ncalls = 0
    /\ run = 0
    /\ NoReport

PageNext ==
    \/ StartArticles
    \/ \E doi \in AnalyzedDois : StartCiting(doi)
    \/ CitingAfterOa
    \/ \E resp \in AllPageResponses : PageAttempt(resp)
    \/ ItemCrossref
    \/ ItemOpenalex
    \/ NestedReturn
    \/ ItemAppend
    \/ PageEnd
    \/ PageAfterAttempt
    \/ \E r \in RespKinds : WorkerAttempt(Main, r)
    \/ WorkerAfterAttempt(Main)

SpecPage == PageInit /\ [][PageNext]_vars

\* the thread that runs the fetch keeps running: its sleeps end and its
\* requests return or time out (timeout=15, lines 377, 403, 425, 470, 590)
FairSpecPage == SpecPage /\ WF_vars(PageNext)

\* C27: in both paginated fetches the returned list holds the items of each
\* page exactly once and in page order, whatever attempts failed and were
\* retried on the way, an attempt that failed after appending included.
C27_PagesOnceInOrder ==
    (pg.pc = "returned" /\ pg.requested /\ pg.success) => pg.ret = pg.once

\* the article fetch alone: nothing of lines 592-603 fails once the page's
\* items are appended
C27_ArticlePagesOnce ==
    (pg.pc = "returned" /\ pg.fn = "articles" /\ pg.success)
        => pg.ret = pg.once

\* the citing fetch has just given up on a page
GaveUp == pg.pc = "returned" /\ pg.fn = "citing" /\ pg.requested /\ ~pg.success

\* a call for a DOI whose list was stored when a page was given up returns
\* that list, and has made no HTTP request
LaterCallServedFromCache ==
    pg.later =>
        /\ pg.pc = "returned"
        /\ pg.ret = pg.exhausted[pg.doi]
        /\ ~pg.requested
        /\ fr[Main].pc = "idle"

C23_PageReadAfterAssigned ==
    (pg.pc = "wait" /\ ChecksEmptyPage(pg)) => (pg.bound /\ pg.ok)

\* the check runs on an empty page that was obtained by a retry
C23_Witness ==
    /\ pg.pc = "wait"
    /\ pg.fn = "articles"
    /\ ChecksEmptyPage(pg)
    /\ pg.attempt > 1
    /\ pg.new_items = <<>>
    /\ pg.bound

\* C7: a paginated fetch whose page requests are all answered with status
\* 200, a non-empty next cursor and an empty list of items returns, be it the
\* article fetch or the citing fetch
C7_EmptyPagesTerminate ==
    (api_mode = "empty_with_cursor" /\ pg.pc = "try") ~> (pg.pc = "returned")

\* C11: when the graph record of the analyzed DOI is missing or gives
\* cited_by_count = 0, get_citing_dois_and_metadata makes no page request and
\* returns and caches the empty list
C11_NoEdgesWithoutCitations ==
    pg.fn = "citing" /\ pg.oa_data \in {"None", "empty_json", "work0"} =>
        /\ ~pg.requested
        /\ pg.pc = "returned"
        /\ pg.ret = <<>>
        /\ pg.doi \in DOMAIN citing_cache
        /\ citing_cache[pg.doi] = <<>>

\* the citing fetch has returned for a work whose record counts no citation
C11_Witness ==
    /\ pg.fn = "citing"
    /\ pg.oa_data = "work0"
    /\ pg.pc = "returned"
    /\ pg.doi \in DOMAIN citing_cache

(***************************************************************************)
(* Concurrent dispatch: process_with_progress (src/app.py:628-649) and the *)
(* unified-metadata and citing-works stages of analyze_journal (lines      *)
(* 4111-4129 and 4148-4162).  Every item is submitted to the pool; a task  *)
(* returns or raises; the main thread drains the futures in the order of   *)
(* their completion.                                                       *)
(***************************************************************************)
Kinds == {"unified", "citing", "process_with_progress"}

\* the lists of DOIs handed to a stage
ItemLists ==
    UNION {[1..n -> {DoiA, UrlA}] : n \in 0..MaxTasks}

\* tasks the pool is running (ThreadPoolExecutor(max_workers=MAX_WORKERS))
Running == {i \in DOMAIN d_task : d_task[i] = "running"}

\* a draining loop whose citing stage lets the exception through
CatchesButCiting(kind) == kind # "citing"

\* lines 639, 4124, 4157: `except Exception` around future.result()
Catches(kind) == kind \in Kinds

\* lines 640-641: only process_with_progress records the failure, as None
RecordsFailure(kind) == kind = "process_with_progress"

DispatchFrame ==
    UNCHANGED <<rlVars, cacheVars, dlVars, fr, poolVars, pageVars, pf,
                d_kind, d_items>>

\* a pool thread takes a submitted task
TaskStart(i) ==
    /\ i \in DOMAIN d_items
    /\ d_pc = "drain"
    /\ d_task[i] = "queued"
    /\ Cardinality(Running) < MAX_WORKERS
    /\ d_task' = [d_task EXCEPT ![i] = "running"]
    /\ UNCHANGED <<d_drained, d_results, d_i, d_pc>>
    /\ DispatchFrame

\* the task's function returns
TaskReturn(i) ==
    /\ i \in DOMAIN d_items
    /\ d_task[i] = "running"
    /\ d_task' = [d_task EXCEPT ![i] = "returned"]
    /\ UNCHANGED <<d_drained, d_results, d_i, d_pc>>
    /\ DispatchFrame

\* the task's function raises
TaskRaise(i) ==
    /\ i \in DOMAIN d_items
    /\ d_task[i] = "running"
    /\ d_task' = [d_task EXCEPT ![i] = "raised"]
    /\ UNCHANGED <<d_drained, d_results, d_i, d_pc>>
    /\ DispatchFrame

\* one turn of `for i, future in enumerate(as_completed(futures))` (lines
\* 636-645, 4114-4129, 4151-4162) on the completed future of item i
Drain(i) ==
    /\ i \in DOMAIN d_items
    /\ d_pc = "drain"
    /\ i \notin d_drained
    /\ d_task[i] \in {"returned", "raised"}
    /\ d_drained' = d_drained \cup {i}
    /\ IF d_task[i] = "returned"
       THEN /\ d_results' = Append(d_results,
                  [item |-> i, doi |-> d_items[i], value |-> "result"])
            /\ d_i' = d_i + 1
            /\ UNCHANGED d_pc
       ELSE IF Catches(d_kind)
       THEN /\ d_results' =
                  IF RecordsFailure(d_kind)
                  THEN Append(d_results,
                          [item |-> i, doi |-> d_items[i], value |-> "None"])
                  ELSE d_results
            /\ d_i' = d_i + 1
            /\ UNCHANGED d_pc
       ELSE /\ d_pc' = "aborted"
            /\ UNCHANGED <<d_results, d_i>>
    /\ UNCHANGED d_task
    /\ DispatchFrame

\* a `with ThreadPoolExecutor` block left without waiting for its tasks
DrainEndNoJoin ==
    /\ d_pc = "drain"
    /\ d_pc' = "done"
    /\ UNCHANGED <<d_task, d_drained, d_results, d_i>>
    /\ DispatchFrame

\* as_completed is exhausted and the with block is left
DrainEnd ==
    /\ d_pc = "drain"
    /\ d_drained = DOMAIN d_items
    /\ d_pc' = "done"
    /\ UNCHANGED <<d_task, d_drained, d_results, d_i>>
    /\ DispatchFrame

DispatchInit ==
    /\ RLInit
    /\ NoCall
    /\ d_kind \in Kinds
    /\ d_items \in ItemLists
    /\ d_task = [i \in DOMAIN d_items |-> "queued"]
    /\ d_drained = {}
    /\ d_results = <<>>
    /\ d_i = 0
    /\ d_pc = "drain"
    /\ NoPaging
    /\ CacheInit
    /\ DelayerInit
    /\ fr = [t \in Workers |-> IdleFrame]
    /\ phase = "ready"
    /\ todo = {}
    /\ ncalls = 0
    /\ run = 0
    /\ NoReport

DispatchNext ==
    \/ \E i \in 1..MaxTasks : TaskStart(i)
    \/ \E i \in 1..MaxTasks : TaskReturn(i)
    \/ \E i \in 1..MaxTasks : TaskRaise(i)
    \/ \E i \in 1..MaxTasks : Drain(i)
    \/ DrainEnd

SpecDispatch == DispatchInit /\ [][DispatchNext]_vars

\* the results collected for item i
Collected(i) ==
    {j \in DOMAIN d_results :
        d_results[j].item = i /\ d_results[j].value = "result"}

\* C8: whatever tasks raise, the draining loop is not aborted, makes one
\* turn per completion, and once it is over has made one turn per submitted
\* item and holds, exactly once, the result of every item whose task returned
C8_BatchSurvivesRaise ==
    /\ d_pc # "aborted"
    /\ d_i = Cardinality(d_drained)
    /\ d_pc = "done" =>
          /\ d_i = Len(d_items)
          /\ \A i \in DOMAIN d_items :
                d_task[i] = "returned" => Cardinality(Collected(i)) = 1

\* a finished batch of the citing stage in which one task raised and another
\* returned
C8_Witness ==
    /\ d_pc = "done"
    /\ d_kind = "citing"
    /\ \E i, j \in DOMAIN d_items :
          d_task[i] = "raised" /\ d_task[j] = "returned"

(***************************************************************************)
(* The stages of analyze_journal (src/app.py:4100-4187): the pool of the   *)
(* unified-metadata stage, the pool of the citing-works stage over the     *)
(* DOIs of the records collected by the first, then the aggregation.       *)
(* SpecStages runs the two draining loops one after the other; `todo`      *)
(* holds the unified tasks that have not completed.  Neither task function *)
(* raises past its own try blocks, so a task ends by returning: with its   *)
(* record in unified_cache (line 449), with its list in citing_cache       *)
(* (lines 460, 496).                                                       *)
(***************************************************************************)
StagesFrame ==
    UNCHANGED <<rlVars, crossref_cache, openalex_cache, dlVars, fr, ncalls,
                run, reportVars, pageVars, pf>>

\* a pool thread takes a task of the current stage
StageTaskStart(i) == TaskStart(i) /\ phase \in {"unified", "citing"}

\* the task's function returns, its result stored under its DOI
StageTaskReturn(i) ==
    /\ i \in DOMAIN d_items
    /\ d_task[i] = "running"
    /\ d_task' = [d_task EXCEPT ![i] = "returned"]
    /\ IF d_kind = "unified"
       THEN /\ unified_cache' =
                  Put(unified_cache, d_items[i],
                      [crossref |-> "record", openalex |-> "work"])
            /\ todo' = todo \ {i}
            /\ UNCHANGED citing_cache
       ELSE /\ citing_cache' = Put(citing_cache, d_items[i], <<>>)
            /\ UNCHANGED <<unified_cache, todo>>
    /\ UNCHANGED <<d_kind, d_items, d_drained, d_results, d_i, d_pc, phase>>
    /\ StagesFrame

\* one turn of the draining loop of the current stage
StageDrain(i) == Drain(i) /\ phase \in {"unified", "citing"}

\* lines 4129-4133 and 4162-4165: the with block of the stage is left
StageDrainEnd == DrainEnd /\ phase \in {"unified", "citing"}

\* lines 4137-4149: analyzed_dois, the DOIs of the collected records, are
\* submitted to the pool of the citing stage
CitingStage ==
    /\ phase = "unified"
    /\ d_pc = "done"
    /\ phase' = "citing"
    /\ d_kind' = "citing"
    /\ d_items' = [k \in DOMAIN d_results |-> d_results[k].doi]
    /\ d_task' = [k \in DOMAIN d_results |-> "queued"]
    /\ d_drained' = {}
    /\ d_results' = <<>>
    /\ d_i' = 0
    /\ d_pc' = "drain"
    /\ UNCHANGED <<unified_cache, citing_cache, todo>>
    /\ StagesFrame

\* lines 4176-4187: the aggregation functions are called
Aggregate ==
    /\ phase = "citing"
    /\ d_pc = "done"
    /\ phase' = "aggregate"
    /\ UNCHANGED <<dispVars, unified_cache, citing_cache, todo>>
    /\ StagesFrame

StagesInit ==
    /\ RLInit
    /\ NoCall
    /\ d_kind = "unified"
    /\ d_items \in ItemLists
    /\ d_task = [i \in DOMAIN d_items |-> "queued"]
    /\ d_drained = {}
    /\ d_results = <<>>
    /\ d_i = 0
    /\ d_pc = "drain"
    /\ NoPaging
    /\ CacheInit
    /\ DelayerInit
    /\ fr = [t \in Workers |-> IdleFrame]
    /\ phase = "unified"
    /\ todo = DOMAIN d_items
    /\ ncalls = 0
    /\ run = 1
    /\ NoReport

StagesNext ==
    \/ \E i \in 1..MaxTasks : StageTaskStart(i)
    \/ \E i \in 1..MaxTasks : StageTaskReturn(i)
    \/ \E i \in 1..MaxTasks : StageDrain(i)
    \/ StageDrainEnd
    \/ CitingStage
    \/ Aggregate

SpecStages == StagesInit /\ [][StagesNext]_vars

FnFrame ==
    UNCHANGED <<rlVars, cacheVars, dlVars, fr, poolVars, pageVars, dispVars>>

\* the other parts of the program at rest
FnRest ==
    /\ RLInit
    /\ NoPaging
    /\ NoDispatch
    /\ CacheInit
    /\ DelayerInit
    /\ fr = [t \in Workers |-> IdleFrame]
    /\ phase = "ready"
    /\ todo = {}
    /\ ncalls = 0
    /\ run = 0
    /\ NoReport

\* sorted(l): l in ascending order
RECURSIVE Insert(_, _)
Insert(v, l) ==
    IF l = <<>> THEN <<v>>
    ELSE IF v <= Head(l) THEN <<v>> \o l
    ELSE <<Head(l)>> \o Insert(v, Tail(l))

RECURSIVE SortAsc(_)
SortAsc(l) == IF l = <<>> THEN <<>> ELSE Insert(Head(l), SortAsc(Tail(l)))

\* sum(l)
RECURSIVE Sum(_)
Sum(l) == IF l = <<>> THEN 0 ELSE Head(l) + Sum(Tail(l))

\* the lists with the elements of l in another order
Reorderings(l) ==
    {[i \in 1..Len(l) |-> l[p[i]]] : p \in Permutations(1..Len(l))}

\* the lists of at most n elements of S
ListsUpTo(S, n) == UNION {[1..k -> S] : k \in 0..n}

(***************************************************************************)
(* extract_stats_from_metadata (src/app.py:756-940): of a metadata record  *)
(* the model keeps whether the registry half (crossref) and the graph half *)
(* (openalex) are there, the registry's container title and number of      *)
(* references, and the graph's host venue name.                            *)
(***************************************************************************)
JournalNames == {"J"}

MetaRecords ==
    {m \in [cr : BOOLEAN, cr_journal : JournalNames \cup {""},
            nrefs : 0..MaxRefs, oa : BOOLEAN,
            oa_host : JournalNames \cup {""}] :
        /\ ~m.cr => m.cr_journal = "" /\ m.nrefs = 0
        /\ ~m.oa => m.oa_host = ""}

\* Counter()[name] += 1
Inc(freq, name) == [freq EXCEPT ![name] = freq[name] + 1]

\* lines 784-785, 822-826, 847-851: journal_freq after the records of list,
\* starting from freq; a name is in the Counter when its count is not 0
RECURSIVE JournalFreq(_, _)
JournalFreq(list, freq) ==
    IF list = <<>> THEN freq
    ELSE LET m == Head(list)
             f1 == IF m.cr /\ m.cr_journal # ""
                   THEN Inc(freq, m.cr_journal) ELSE freq
             f2 == IF m.oa /\ m.oa_host # "" /\ f1[m.oa_host] = 0
                   THEN Inc(f1, m.oa_host) ELSE f1
         IN  JournalFreq(Tail(list), f2)

\* lines 790-801: ref_counts, one entry per record that has a registry half
RECURSIVE RefCounts(_)
RefCounts(list) ==
    IF list = <<>> THEN <<>>
    ELSE (IF Head(list).cr THEN <<Head(list).nrefs>> ELSE <<>>)
         \o RefCounts(Tail(list))

\* the result of the call; line 877 indexes sorted(ref_counts) at
\* n_items // 2, n_items the length of the whole list
extract_stats_from_metadata(list) ==
    LET n_items == Len(list)
        ref_counts == RefCounts(list)
        journal_freq == JournalFreq(list, [n \in JournalNames |-> 0])
    IN  IF n_items > 0 /\ (n_items \div 2) + 1 > Len(ref_counts)
        THEN [raised |-> "IndexError"]
        ELSE [raised |-> "no",
              n_items |-> n_items,
              total_refs |-> Sum(ref_counts),
              ref_median |-> IF n_items > 0
                             THEN SortAsc(ref_counts)[(n_items \div 2) + 1]
                             ELSE 0,
              journal_freq |-> journal_freq,
              unique_journals_count |->
                  Cardinality({n \in JournalNames : journal_freq[n] > 0})]

ExtractStatsInputs ==
    [pc : {"ready"}, f : {"extract_stats_from_metadata"},
     x : ListsUpTo(MetaRecords, MaxRecs)]

\* lines 4176-4177: the call, on the list and on the same records in
\* another completion order
CallExtractStats ==
    /\ pf.pc = "ready"
    /\ pf.f = "extract_stats_from_metadata"
    /\ \E r \in Reorderings(pf.x) :
           pf' = [pc |-> "done", f |-> pf.f, x |-> pf.x, y |-> r,
                  out |-> extract_stats_from_metadata(pf.x),
                  out2 |-> extract_stats_from_metadata(r)]
    /\ FnFrame

\* C12: aggregation does not depend on the completion order: on every
\* reordering of the same metadata list extract_stats_from_metadata returns
\* the same result, its frequency counts included
C12_OrderIndependent ==
    pf.pc = "done" /\ pf.f = "extract_stats_from_metadata" => pf.out = pf.out2

\* C13: on a list whose records lack the registry half, the graph half or
\* both, in any mix, the aggregator completes without raising
C13_ToleratesMissingHalves ==
    pf.pc = "done" /\ pf.f = "extract_stats_from_metadata" =>
        pf.out.raised = "no"

(***************************************************************************)
(* parse_period (src/app.py:314-339).  The period string is built from     *)
(* components (a year, a range, or a text that is neither) joined by       *)
(* commas, and parsed character by character.                              *)
(***************************************************************************)
Digits == <<"0", "1", "2", "3", "4", "5", "6", "7", "8", "9">>

IsDigit(c) == \E i \in 1..10 : Digits[i] = c

DigitVal(c) == (CHOOSE i \in 1..10 : Digits[i] = c) - 1

\* str(n) of a natural number
RECURSIVE ToDigits(_)
ToDigits(n) ==
    IF n < 10 THEN <<Digits[n + 1]>>
    ELSE Append(ToDigits(n \div 10), Digits[(n % 10) + 1])

RECURSIVE DigitsValue(_, _)
DigitsValue(str, acc) ==
    IF str = <<>> THEN acc
    ELSE DigitsValue(Tail(str), 10 * acc + DigitVal(Head(str)))

\* int(str) for the characters of the model: -1 stands for ValueError
ParseInt(str) ==
    IF str = <<>> \/ \E i \in 1..Len(str) : ~IsDigit(str[i]) THEN -1
    ELSE DigitsValue(str, 0)

\* str.replace(' ', '')
RECURSIVE RemoveSpaces(_)
RemoveSpaces(str) ==
    IF str = <<>> THEN <<>>
    ELSE (IF Head(str) = " " THEN <<>> ELSE <<Head(str)>>)
         \o RemoveSpaces(Tail(str))

\* str.split(sep): the pieces, with `cur` the piece being read
RECURSIVE SplitFrom(_, _, _)
SplitFrom(str, sep, cur) ==
    IF str = <<>> THEN <<cur>>
    ELSE IF Head(str) = sep THEN <<cur>> \o SplitFrom(Tail(str), sep, <<>>)
    ELSE SplitFrom(Tail(str), sep, Append(cur, Head(str)))

Split(str, sep) == SplitFrom(str, sep, <<>>)

\* sorted(S) of a set of numbers
RECURSIVE SortSet(_)
SortSet(S) ==
    IF S = {} THEN <<>>
    ELSE LET m == CHOOSE v \in S : \A w \in S : v <= w
         IN  <<m>> \o SortSet(S \ {m})

\* a year test that leaves the two ends out
YearInRangeStrict(y) == 1900 < y /\ y < 2100

\* lines 321, 330: 1900 <= y <= 2100
YearInRange(y) == 1900 <= y /\ y <= 2100

\* lines 318-335: what one part adds: its years, and whether it warns
ParsePart(part) ==
    IF \E i \in 1..Len(part) : part[i] = "-"
    THEN LET pieces == Split(part, "-")
             ps == IF Len(pieces) = 2 THEN ParseInt(pieces[1]) ELSE -1
             pe == IF Len(pieces) = 2 THEN ParseInt(pieces[2]) ELSE -1
         IN  IF ps >= 0 /\ pe >= 0 /\ YearInRange(ps) /\ YearInRange(pe)
                /\ ps <= pe
             THEN [years |-> ps..pe, warned |-> FALSE]
             ELSE [years |-> {}, warned |-> TRUE]
    ELSE LET y == ParseInt(part)
         IN  IF y >= 0 /\ YearInRange(y)
             THEN [years |-> {y}, warned |-> FALSE]
             ELSE [years |-> {}, warned |-> TRUE]

\* line 316: the parts, the empty ones left out
Parts(period_str) ==
    SelectSeq(Split(RemoveSpaces(period_str), ","), LAMBDA q : q # <<>>)

parse_period(period_str) ==
    LET parts == Parts(period_str)
        years == UNION {ParsePart(parts[i]).years : i \in 1..Len(parts)}
        warnings == Cardinality({i \in 1..Len(parts) : ParsePart(parts[i]).warned})
    IN  [years |-> SortSet(years), warnings |-> warnings,
         error |-> years = {}]

\* the components a period string is made of
YearComponents ==
    {[kind |-> "year", s |-> y, e |-> y] : y \in {1899, 1900, 2024, 2100, 2101}}

RangeComponents ==
    {[kind |-> "range", s |-> 2020, e |-> 2022],
     [kind |-> "range", s |-> 2022, e |-> 2020],
     [kind |-> "range", s |-> 1899, e |-> 1901],
     [kind |-> "range", s |-> 2099, e |-> 2101],
     [kind |-> "range", s |-> 1900, e |-> 1900],
     [kind |-> "range", s |-> 2098, e |-> 2100]}

\* texts that are no year and no range: "20x0", "2020-", "2020-2021-2022",
\* and a year typed twice in a row
OtherComponents ==
    {[kind |-> "text", s |-> 1, e |-> 0], [kind |-> "text", s |-> 2, e |-> 0],
     [kind |-> "text", s |-> 3, e |-> 0], [kind |-> "text", s |-> 4, e |-> 0]}

OtherTexts ==
    <<  <<"2", "0", "x", "0">>,
        <<"2", "0", "2", "0", "-">>,
        ToDigits(2020) \o <<"-">> \o ToDigits(2021) \o <<"-">> \o ToDigits(2022),
        ToDigits(2020) \o ToDigits(2020) >>

Components == YearComponents \cup RangeComponents \cup OtherComponents

\* what the user types for a component; a year is typed after a space
Typed(c) ==
    CASE c.kind = "year" -> <<" ">> \o ToDigits(c.s)
      [] c.kind = "range" -> ToDigits(c.s) \o <<"-">> \o ToDigits(c.e)
      [] OTHER -> OtherTexts[c.s]

\* the components joined by commas
RECURSIVE Joined(_)
Joined(cs) ==
    IF cs = <<>> THEN <<>>
    ELSE IF Len(cs) = 1 THEN Typed(cs[1])
    ELSE Typed(cs[1]) \o <<",">> \o Joined(Tail(cs))

ParsePeriodInputs ==
    {[pc |-> "ready", f |-> "parse_period", x |-> Joined(cs), y |-> cs] :
        cs \in ListsUpTo(Components, MaxParts)}

\* line 4067: years = parse_period(period_str)
CallParsePeriod ==
    /\ pf.pc = "ready"
    /\ pf.f = "parse_period"
    /\ pf' = [pc |-> "done", f |-> pf.f, x |-> pf.x, y |-> pf.y,
              out |-> parse_period(pf.x)]
    /\ FnFrame

\* the years the components of cs stand for
ValidComponent(c) ==
    /\ c.kind \in {"year", "range"}
    /\ 1900 <= c.s /\ c.s <= 2100
    /\ 1900 <= c.e /\ c.e <= 2100
    /\ c.s <= c.e

CoveredYears(cs) ==
    UNION {IF ValidComponent(cs[i]) THEN cs[i].s..cs[i].e ELSE {} :
              i \in 1..Len(cs)}

\* C15: parse_period returns the ascending, duplicate-free list of the years
\* covered by the valid components (a year in 1900..2100; a range s-e with
\* both ends in 1900..2100 and s <= e); each invalid component is dropped
\* with one warning and leaves the others alone; without a valid year the
\* result is empty with the error; '2020-2022,2024' gives 2020, 2021, 2022,
\* 2024
C15_ParsePeriod ==
    pf.pc = "done" /\ pf.f = "parse_period" =>
        LET ys == pf.out.years
            cs == pf.y
        IN  /\ \A i \in 1..(Len(ys) - 1) : ys[i] < ys[i + 1]
            /\ {ys[i] : i \in 1..Len(ys)} = CoveredYears(cs)
            /\ pf.out.warnings =
                  Cardinality({i \in 1..Len(cs) : ~ValidComponent(cs[i])})
            /\ pf.out.error = (CoveredYears(cs) = {})
            /\ pf.out.error => ys = <<>>
            /\ cs = <<[kind |-> "range", s |-> 2020, e |-> 2022],
                      [kind |-> "year", s |-> 2024, e |-> 2024]>>
                  => ys = <<2020, 2021, 2022, 2024>>

\* '2020-2022, 2024' has been parsed
C15_Witness ==
    /\ pf.pc = "done"
    /\ pf.f = "parse_period"
    /\ pf.y = <<[kind |-> "range", s |-> 2020, e |-> 2022],
                [kind |-> "year", s |-> 2024, e |-> 2024]>>
    /\ pf.out.years = <<2020, 2021, 2022, 2024>>

(***************************************************************************)
(* validate_and_clean_data (src/app.py:342-366) on lists of registry items *)
(***************************************************************************)
ItemDois ==
    {<<>>, <<" ">>, TenDot \o <<"A">>, <<" ">> \o TenDot \o <<"A", " ">>,
     DoiOrg \o DoiA, TenDot \o <<"c">>}

Items == [DOI : ItemDois, year : {1800, 2020}]

ValidateInputs ==
    {[pc |-> "ready", f |-> "validate_and_clean_data", x |-> l, y |-> l] :
        l \in ListsUpTo(Items, MaxRecs)}

\* line 4094, and the same call on its own result
CallValidate ==
    /\ pf.pc = "ready"
    /\ pf.f = "validate_and_clean_data"
    /\ pf' = [pc |-> "done", f |-> pf.f, x |-> pf.x, y |-> pf.y,
              out |-> [validated |-> validate_and_clean_data(pf.x),
                       skipped_count |-> SkippedCount(pf.x)],
              out2 |-> validate_and_clean_data(validate_and_clean_data(pf.x))]
    /\ FnFrame

(***************************************************************************)
(* The H-index of enhanced_stats_calculation (src/app.py:960-966) on lists *)
(* of per-work counts of citing edges.                                     *)
(***************************************************************************)
RECURSIVE Reverse(_)
Reverse(l) == IF l = <<>> THEN <<>> ELSE Append(Reverse(Tail(l)), Head(l))

\* citation_counts.sort(reverse=True)
SortDesc(l) == Reverse(SortAsc(l))

\* a comparison that asks for more than rank citations
QualifiesStrict(count, rank) == count > rank

\* line 963: `count >= i + 1`, rank being i + 1
Qualifies(count, rank) == count >= rank

\* lines 961-966: the loop over the sorted counts from position i on
RECURSIVE HLoop(_, _, _)
HLoop(sorted, i, h) ==
    IF i > Len(sorted) THEN h
    ELSE IF Qualifies(sorted[i], i) THEN HLoop(sorted, i + 1, i)
    ELSE h

h_index(citation_counts) == HLoop(SortDesc(citation_counts), 1, 0)

\* the example of the specification
ExampleCounts == <<10, 8, 5, 4, 3>>

HIndexInputs ==
    UNION {{[pc |-> "ready", f |-> "h_index", x |-> l, y |-> r] :
               r \in Reorderings(l)} :
              l \in ListsUpTo(0..MaxCount, MaxWorks) \cup {ExampleCounts}}

\* lines 959-966, on the counts, on the same counts in another order, and
\* again on the list the first call sorted in place
CallHIndex ==
    /\ pf.pc = "ready"
    /\ pf.f = "h_index"
    /\ pf' = [pc |-> "done", f |-> pf.f, x |-> pf.x, y |-> pf.y,
              out |-> h_index(pf.x),
              out2 |-> h_index(pf.y),
              again |-> h_index(SortDesc(pf.x))]
    /\ FnFrame

\* at least h of the counts are h or more
AtLeast(l, h) == Cardinality({i \in 1..Len(l) : l[i] >= h}) >= h

\* C17: the h_index is the largest h such that at least h works have h or
\* more citing edges, 0 if there is none; it is the same for every order of
\* the counts and when computed again; for 10, 8, 5, 4, 3 it is 4
C17_HIndex ==
    pf.pc = "done" /\ pf.f = "h_index" =>
        /\ pf.out \in 0..Len(pf.x)
        /\ pf.out > 0 => AtLeast(pf.x, pf.out)
        /\ \A k \in (pf.out + 1)..Len(pf.x) : ~AtLeast(pf.x, k)
        /\ pf.out2 = pf.out
        /\ pf.again = pf.out
        /\ pf.x = ExampleCounts => pf.out = 4

\* the example, with its counts in another order
C17_Witness ==
    /\ pf.pc = "done"
    /\ pf.f = "h_index"
    /\ pf.x = ExampleCounts
    /\ pf.y = <<3, 4, 5, 8, 10>>
    /\ pf.out2 = 4

(***************************************************************************)
(* calculate_jscr_fast (src/app.py:1130-1223): the share of the citing     *)
(* records published in the analysed journal itself.  Of a citing record   *)
(* the model keeps whether it is truthy, the ISSNs of the graph's host     *)
(* venue and the ISSNs of the registry record, each a list of strings      *)
(* (an absent half or an absent field is the empty list).  JSCR is kept    *)
(* in hundredths of a percent, which is what round(..., 2) retains.        *)
(***************************************************************************)
UpperChar(c) ==
    CASE c = "x" -> "X"
      [] c = "a" -> "A"
      [] c = "b" -> "B"
      [] OTHER -> c

Upper(s) == [i \in 1..Len(s) |-> UpperChar(s[i])]

\* str.replace('-', '')
RemoveHyphens(s) == SelectSeq(s, LAMBDA c : c # "-")

\* an ISSN cleaned without the upper-casing
IssnCleanKeepCase(issn) == RemoveHyphens(issn)

\* lines 1146, 1169, 1185: issn.replace('-', '').upper()
IssnClean(issn) == Upper(RemoveHyphens(issn))

\* lines 1167-1174 and 1183-1190: a truthy entry of the list whose cleaned
\* form is the journal's
MatchIn(issns, journal_issn_clean) ==
    \E i \in 1..Len(issns) :
        /\ issns[i] # <<>>
        /\ IssnClean(issns[i]) = journal_issn_clean

\* lines 1155-1190: the host venue first, the registry record when the host
\* venue gave no match
found_match(c, journal_issn_clean) ==
    IF MatchIn(c.oa_issns, journal_issn_clean)
    THEN TRUE
    ELSE MatchIn(c.cr_issns, journal_issn_clean)

\* round(self_cites / total_processed * 100, 2), in hundredths
Round2Percent(self_cites, total_processed) ==
    (2 * 10000 * self_cites + total_processed) \div (2 * total_processed)

calculate_jscr_fast(citing_metadata, journal_issn) ==
    IF citing_metadata = <<>>
    THEN [JSCR |-> 0, self_cites |-> 0, total_cites |-> 0]
    ELSE LET journal_issn_clean ==
                 IF journal_issn # <<>> THEN IssnClean(journal_issn) ELSE <<>>
             processed == SelectSeq(citing_metadata, LAMBDA c : c.truthy)
             self_cites ==
                 Len(SelectSeq(processed,
                               LAMBDA c : found_match(c, journal_issn_clean)))
             total_processed == Len(processed)
         IN  [JSCR |-> IF total_processed > 0
                       THEN Round2Percent(self_cites, total_processed)
                       ELSE 0,
              self_cites |-> self_cites,
              total_cites |-> total_processed]

IssnUpper == <<"1", "2", "3", "X">>
IssnOther == <<"9", "9">>
Hyphen == <<"-">>

JournalIssns == {Issn1, IssnUpper, IssnOther, <<>>}

CitingRecords ==
    {[truthy |-> FALSE, oa_issns |-> <<>>, cr_issns |-> <<>>]}
    \cup [truthy : {TRUE},
          oa_issns : {<<>>, <<IssnUpper>>, <<IssnOther>>,
                      <<IssnOther, Issn1>>, << <<>> >>},
          cr_issns : {<<>>, <<Issn1>>, <<IssnOther>>, <<Hyphen>>}]

JscrInputs ==
    [pc : {"ready"}, f : {"calculate_jscr_fast"},
     x : ListsUpTo(CitingRecords, MaxEdges), y : JournalIssns]

CallJscr ==
    /\ pf.pc = "ready"
    /\ pf.f = "calculate_jscr_fast"
    /\ pf' = [pc |-> "done", f |-> pf.f, x |-> pf.x, y |-> pf.y,
              out |-> calculate_jscr_fast(pf.x, pf.y)]
    /\ FnFrame

\* hyphens stripped, upper-cased
CanonChar(c) == IF c = "x" THEN "X" ELSE IF c = "a" THEN "A" ELSE c

RECURSIVE Canon(_)
Canon(s) ==
    IF s = <<>> THEN <<>>
    ELSE IF Head(s) = "-" THEN Canon(Tail(s))
    ELSE <<CanonChar(Head(s))>> \o Canon(Tail(s))

\* the ISSNs an edge carries: the non-empty entries of both halves
EdgeIssns(c) ==
    ({c.oa_issns[i] : i \in 1..Len(c.oa_issns)}
         \cup {c.cr_issns[i] : i \in 1..Len(c.cr_issns)}) \ {<<>>}

SharesIssn(c, journal_issn) ==
    \E e \in EdgeIssns(c) : Canon(e) = Canon(journal_issn)

\* the records the function counts as citing edges
Edges(l) == {i \in 1..Len(l) : l[i].truthy}

AuthorIds == {"A1", "A2"}

\* lines 1540-1546: the ids counted, in the order the loops meet them
RECURSIVE CountedIds(_)
CountedIds(analyzed_metadata) ==
    IF analyzed_metadata = <<>> THEN <<>>
    ELSE LET meta == Head(analyzed_metadata)
         IN  (IF meta.oa
              THEN SelectSeq(meta.authorships, LAMBDA id : id # "None")
              ELSE <<>>) \o CountedIds(Tail(analyzed_metadata))

\* the keys of the Counter, in the order of their first appearance
RECURSIVE Keys(_)
Keys(ids) ==
    IF ids = <<>> THEN <<>>
    ELSE LET rest == Keys(SubSeq(ids, 1, Len(ids) - 1))
             last == ids[Len(ids)]
         IN  IF \E i \in 1..Len(rest) : rest[i] = last
             THEN rest
             ELSE Append(rest, last)

\* author_counts.values()
CounterValues(ids) ==
    LET keys == Keys(ids)
    IN  [k \in 1..Len(keys) |->
            Cardinality({i \in 1..Len(ids) : ids[i] = keys[k]})]

\* the values left in the order of the Counter
ValuesUnsorted(values) == values

\* line 1552: sorted(author_counts.values())
SortedValues(values) == SortAsc(values)

\* line 1554: np.cumsum
CumSum(values) == [k \in 1..Len(values) |-> Sum(SubSeq(values, 1, k))]

\* round(gini, 3) of num / den, in thousandths
Round3(num, den) == (2 * 1000 * num + den) \div (2 * den)

calculate_author_gini_fast(analyzed_metadata) ==
    LET author_counts == CounterValues(CountedIds(analyzed_metadata))
    IN  IF Len(author_counts) < 2
        THEN [author_gini |-> 0, num |-> 0, den |-> 1,
              values |-> author_counts]
        ELSE LET values == SortedValues(author_counts)
                 n == Len(values)
                 cumulative == CumSum(values)
                 \* (n + 1 - 2 * sum(cumulative) / cumulative[-1]) / n
                 num == (n + 1) * cumulative[n] - 2 * Sum(cumulative)
                 den == n * cumulative[n]
             IN  [author_gini |-> Round3(num, den), num |-> num, den |-> den,
                  values |-> author_counts]

GiniRecords ==
    {[oa |-> FALSE, authorships |-> <<>>]}
    \cup [oa : {TRUE}, authorships : ListsUpTo(AuthorIds \cup {"None"}, MaxAuths)]

\* four authors with one article each
EqualExample ==
    <<[oa |-> TRUE, authorships |-> <<"A1", "A2">>],
      [oa |-> TRUE, authorships |-> <<"A3", "A4">>]>>

GiniInputs ==
    [pc : {"ready"}, f : {"calculate_author_gini_fast"},
     x : ListsUpTo(GiniRecords, MaxRecs) \cup {EqualExample}]

CallGini ==
    /\ pf.pc = "ready"
    /\ pf.f = "calculate_author_gini_fast"
    /\ pf' = [pc |-> "done", f |-> pf.f, x |-> pf.x,
              out |-> calculate_author_gini_fast(pf.x)]
    /\ FnFrame

\* the articles of one author
Articles(l, id) ==
    Sum([i \in 1..Len(l) |->
            IF l[i].oa
            THEN Cardinality({j \in 1..Len(l[i].authorships) :
                                 l[i].authorships[j] = id})
            ELSE 0])

\* the counts of the authors in ascending order
Ascending(l) ==
    LET ids == <<"A1", "A2", "A3", "A4">>
        per_author ==
            SelectSeq([k \in 1..Len(ids) |-> Articles(l, ids[k])],
                      LAMBDA c : c > 0)
    IN  CHOOSE w \in Reorderings(per_author) :
            \A k \in 1..(Len(w) - 1) : w[k] <= w[k + 1]

\* the sum of the cumulative sums of w
SumOfCumulative(w) ==
    Sum([k \in 1..Len(w) |-> Sum([i \in 1..k |-> w[i]])])

HORIZON == 50

\* lines 1244-1259: the year of a citing entry, 0 standing for None
YearOf(c) ==
    IF c.openalex THEN c.publication_year
    ELSE IF c.pub_date # <<>>
         THEN LET v == ParseInt(SubSeq(c.pub_date, 1, Min(4, Len(c.pub_date))))
              IN  IF v = -1 THEN 0 ELSE v
         ELSE 0

\* lines 1241-1262: yearly[y]
Yearly(citings, y) ==
    Cardinality({i \in 1..Len(citings) : y # 0 /\ YearOf(citings[i]) = y})

\* line 1264: sum(yearly.values())
YearlyTotal(citings) ==
    Cardinality({i \in 1..Len(citings) : YearOf(citings[i]) # 0})

\* lines 1268-1274: cumulative after the years pub_year .. pub_year + k
Cumulative(citings, pub_year, k) ==
    Cardinality({i \in 1..Len(citings) :
                    /\ YearOf(citings[i]) >= pub_year
                    /\ YearOf(citings[i]) <= pub_year + k})

\* lines 1229-1275: what one record appends to half_lives
WorkHalfLives(meta) ==
    IF ~meta.crossref \/ meta.pub_year = 0 \/ meta.citings = <<>>
       \/ YearlyTotal(meta.citings) = 0
    THEN <<>>
    ELSE LET total == YearlyTotal(meta.citings)
             \* cumulative >= total / 2
             reached == {k \in 0..(HORIZON - 1) :
                            2 * Cumulative(meta.citings, meta.pub_year, k)
                                >= total}
         IN  IF reached = {} THEN <<>>
             ELSE <<CHOOSE k \in reached : \A j \in reached : k <= j>>

RECURSIVE HalfLives(_)
HalfLives(analyzed_metadata) ==
    IF analyzed_metadata = <<>> THEN <<>>
    ELSE WorkHalfLives(Head(analyzed_metadata))
             \o HalfLives(Tail(analyzed_metadata))

\* twice np.median of a non-empty list
TwiceMedian(l) ==
    LET s == SortAsc(l)
        n == Len(s)
    IN  IF n % 2 = 1 THEN 2 * s[(n + 1) \div 2]
        ELSE s[n \div 2] + s[(n \div 2) + 1]

\* lines 1276-1280: -1 stands for None
calculate_cited_half_life_fast(analyzed_metadata) ==
    LET half_lives == HalfLives(analyzed_metadata)
    IN  [half_lives |-> half_lives,
         \* int(np.median(half_lives))
         cited_half_life_median |->
             IF half_lives # <<>> THEN TwiceMedian(half_lives) \div 2 ELSE -1,
         articles_with_chl |-> Len(half_lives)]

PubYear == 2022

NoDate == <<>>

\* the citing entries: a graph half with a year before, in, or after the
\* publication year, a graph half without year, and no graph half with a
\* pub_date of the following year
CitingBefore ==
    [openalex |-> TRUE, publication_year |-> PubYear - 1, pub_date |-> NoDate]

CitingSameYear ==
    [openalex |-> TRUE, publication_year |-> PubYear, pub_date |-> NoDate]

CitingNextYear ==
    [openalex |-> FALSE, publication_year |-> 0,
     pub_date |-> ToDigits(PubYear + 1) \o <<"-", "0", "1">>]

CitingTwoLater ==
    [openalex |-> TRUE, publication_year |-> PubYear + 2, pub_date |-> NoDate]

CitingNoYear ==
    [openalex |-> TRUE, publication_year |-> 0, pub_date |-> NoDate]

HalfLifeWorks ==
    {[crossref |-> FALSE, pub_year |-> 0, citings |-> <<CitingSameYear>>],
     [crossref |-> TRUE, pub_year |-> 0, citings |-> <<CitingSameYear>>],
     [crossref |-> TRUE, pub_year |-> PubYear, citings |-> <<CitingNoYear>>],
     [crossref |-> TRUE, pub_year |-> PubYear, citings |-> <<CitingBefore>>]}
    \cup [crossref : {TRUE}, pub_year : {PubYear},
          citings : ListsUpTo({CitingSameYear, CitingNextYear, CitingTwoLater},
                              MaxEdges)]

HalfLifeInputs ==
    [pc : {"ready"}, f : {"calculate_cited_half_life_fast"},
     x : ListsUpTo(HalfLifeWorks, MaxRecs)]

CallHalfLife ==
    /\ pf.pc = "ready"
    /\ pf.f = "calculate_cited_half_life_fast"
    /\ pf' = [pc |-> "done", f |-> pf.f, x |-> pf.x,
              out |-> calculate_cited_half_life_fast(pf.x)]
    /\ FnFrame

\* an analysed work with a publication year and at least one citing edge
\* whose year is known
HasDatedEdge(meta) ==
    /\ meta.crossref
    /\ meta.pub_year # 0
    /\ \E i \in 1..Len(meta.citings) : YearOf(meta.citings[i]) # 0

\* k is the smallest offset at which the edges accumulated from the
\* publication year reach half of all the dated edges of the work
IsHalfLifeOffset(meta, k) ==
    LET dated == {i \in 1..Len(meta.citings) : YearOf(meta.citings[i]) # 0}
        upto(j) == {i \in dated :
                       /\ YearOf(meta.citings[i]) >= meta.pub_year
                       /\ YearOf(meta.citings[i]) <= meta.pub_year + j}
    IN  /\ k >= 0
        /\ 2 * Cardinality(upto(k)) >= Cardinality(dated)
        /\ \A j \in 0..(k - 1) : 2 * Cardinality(upto(j)) < Cardinality(dated)

\* the works of l with a dated edge, in the order of l
DatedWorks(l) == SelectSeq(l, HasDatedEdge)

\* C20: calculate_cited_half_life_fast takes, for each analysed work with
\* at least one citing edge whose year is known, one offset: the smallest
\* k >= 0 at which the citing edges accumulated year by year from the
\* publication year first reach half of the work's total; the half-life it
\* reports is the median of those offsets.
C20_HalfLifeIsMedianOffset ==
    (pf.pc = "done" /\ pf.f = "calculate_cited_half_life_fast") =>
        LET works == DatedWorks(pf.x)
            offsets == pf.out.half_lives
        IN  /\ Len(offsets) = Len(works)
            /\ \A i \in 1..Len(offsets) : IsHalfLifeOffset(works[i], offsets[i])
            /\ offsets # <<>> =>
                   2 * pf.out.cited_half_life_median = TwiceMedian(offsets)

(***************************************************************************)
(* analyze_overlaps (src/app.py:652-700) with                              *)
(* extract_affiliations_and_countries (src/app.py:500-531).  A graph half  *)
(* is kept as its list of authorships, each with the author's display     *)
(* name ("" when the author has none) and the name of its institution      *)
(* ("" when it has none); an analysed record as whether its registry half  *)
(* is there and holds a DOI, its graph half, and the citing list cached    *)
(* for its DOI.  Every citing entry has a DOI (line 475).  A reported      *)
(* pair is named by the positions of the two works.                        *)
(***************************************************************************)
NoHalf == [present |-> FALSE, authorships |-> <<>>]

Half(authorships) == [present |-> TRUE, authorships |-> authorships]

\* lines 500-531: the author names and the affiliations of a graph half
extract_affiliations_and_countries(openalex_data) ==
    IF ~openalex_data.present
    THEN [authors |-> {}, affiliations |-> {}]
    ELSE LET auths == openalex_data.authorships
         IN  [authors |->
                  {IF auths[i].name = "" THEN "Unknown" ELSE auths[i].name :
                      i \in 1..Len(auths)},
              affiliations |->
                  {auths[i].inst : i \in 1..Len(auths)} \ {""}]

\* lines 682-695: the entry appended for a citing work, or none
OverlapOf(i, analyzed, j, citing) ==
    IF ~citing.openalex.present THEN <<>>
    ELSE LET a == extract_affiliations_and_countries(analyzed.openalex)
             c == extract_affiliations_and_countries(citing.openalex)
             common_authors == a.authors \cap c.authors
             common_affiliations == a.affiliations \cap c.affiliations
         IN  IF common_authors # {} \/ common_affiliations # {}
             THEN <<[analyzed |-> i, citing |-> j,
                     common_authors |-> common_authors,
                     common_affiliations |-> common_affiliations]>>
             ELSE <<>>

RECURSIVE CitingLoop(_, _, _)
CitingLoop(i, analyzed, j) ==
    IF j > Len(analyzed.citings) THEN <<>>
    ELSE OverlapOf(i, analyzed, j, analyzed.citings[j])
             \o CitingLoop(i, analyzed, j + 1)

RECURSIVE AnalyzedLoop(_, _)
AnalyzedLoop(analyzed_metadata, i) ==
    IF i > Len(analyzed_metadata) THEN <<>>
    ELSE LET analyzed == analyzed_metadata[i]
         IN  (IF ~analyzed.crossref \/ ~analyzed.cr_doi
              THEN <<>>
              ELSE CitingLoop(i, analyzed, 1))
             \o AnalyzedLoop(analyzed_metadata, i + 1)

analyze_overlaps(analyzed_metadata) == AnalyzedLoop(analyzed_metadata, 1)

OverlapHalves ==
    {NoHalf,
     Half(<<[name |-> "A", inst |-> "I"]>>),
     Half(<<[name |-> "B", inst |-> ""]>>),
     Half(<<[name |-> "", inst |-> "J"]>>)}

CitesSharedAuthor == [openalex |-> Half(<<[name |-> "A", inst |-> "K"]>>)]

CitesSharedInst ==
    [openalex |-> Half(<<[name |-> "C", inst |-> "I"], [name |-> "D", inst |-> ""]>>)]

CitesUnrelated == [openalex |-> Half(<<[name |-> "C", inst |-> "K"]>>)]

CitesNoHalf == [openalex |-> NoHalf]

OverlapCitings ==
    {<<>>, <<CitesSharedAuthor>>, <<CitesUnrelated, CitesSharedInst>>,
     <<CitesNoHalf, CitesSharedAuthor>>, <<CitesUnrelated>>}

OverlapWorks ==
    [crossref : BOOLEAN, cr_doi : {TRUE}, openalex : OverlapHalves,
     citings : OverlapCitings]
    \cup {[crossref |-> TRUE, cr_doi |-> FALSE,
           openalex |-> Half(<<[name |-> "A", inst |-> "I"]>>),
           citings |-> <<CitesSharedAuthor>>]}

OverlapInputs ==
    [pc : {"ready"}, f : {"analyze_overlaps"},
     x : ListsUpTo(OverlapWorks, MaxRecs)]

CallOverlaps ==
    /\ pf.pc = "ready"
    /\ pf.f = "analyze_overlaps"
    /\ pf' = [pc |-> "done", f |-> pf.f, x |-> pf.x,
              out |-> analyze_overlaps(pf.x)]
    /\ FnFrame

\* the analysed work has a DOI: its registry half holds one, or the
\* registry half is absent and the graph half found for the DOI is there
WorkHasDoi(w) ==
    \/ w.crossref /\ w.cr_doi
    \/ ~w.crossref /\ w.openalex.present

\* the author names or the affiliations of the two graph halves intersect
Intersect(a, c) ==
    LET sa == extract_affiliations_and_countries(a)
        sc == extract_affiliations_and_countries(c)
    IN  \/ sa.authors \cap sc.authors # {}
        \/ sa.affiliations \cap sc.affiliations # {}

Reported(details, i, j) ==
    \E k \in 1..Len(details) : details[k].analyzed = i /\ details[k].citing = j

\* C21: analyze_overlaps reports a pair (analysed work, citing edge) if and
\* only if the author-name sets or the affiliation sets of the two works
\* intersect, for every analysed work with a DOI and each of its citing
\* edges, whichever metadata halves of the analysed work are present.
C21_OverlapIffIntersect ==
    (pf.pc = "done" /\ pf.f = "analyze_overlaps") =>
        \A i \in 1..Len(pf.x) :
            WorkHasDoi(pf.x[i]) =>
                \A j \in 1..Len(pf.x[i].citings) :
                    Reported(pf.out, i, j)
                        <=> Intersect(pf.x[i].openalex,
                                      pf.x[i].citings[j].openalex)

(***************************************************************************)
(* calculate_citation_timing_stats (src/app.py:980-1059) with              *)
(* get_doi_prefix (src/app.py:622-625).  A date is counted in days from    *)
(* 1 January of BaseYear; the dates of the model lie in January and        *)
(* February of that year.  -1 stands for a date that datetime(...) or      *)
(* fromisoformat(...) refuses.                                             *)
(***************************************************************************)
BaseYear == 2022

\* datetime(year, month, day) as a day number
Ordinal(year, month, day) ==
    IF year = BaseYear /\ month \in 1..2
       /\ day >= 1 /\ day <= (IF month = 1 THEN 31 ELSE 28)
    THEN (IF month = 1 THEN 0 ELSE 31) + day - 1
    ELSE -1

\* lines 991-1003: the date of the analysed work from its date-parts, with
\* month and day defaulting to 1; -2 when the record is skipped at once
AnalyzedDate(date_parts) ==
    IF date_parts = <<>> THEN -2
    ELSE Ordinal(date_parts[1],
                 IF Len(date_parts) > 1 THEN date_parts[2] ELSE 1,
                 IF Len(date_parts) > 2 THEN date_parts[3] ELSE 1)

\* datetime.fromisoformat of a 'YYYY-MM-DD' string
FromIsoFormat(str) ==
    IF Len(str) = 10 /\ str[5] = "-" /\ str[8] = "-"
       /\ ParseInt(SubSeq(str, 1, 4)) >= 0
       /\ ParseInt(SubSeq(str, 6, 7)) >= 0
       /\ ParseInt(SubSeq(str, 9, 10)) >= 0
    THEN Ordinal(ParseInt(SubSeq(str, 1, 4)), ParseInt(SubSeq(str, 6, 7)),
                 ParseInt(SubSeq(str, 9, 10)))
    ELSE -1

\* lines 622-625
get_doi_prefix(doi) ==
    IF doi = <<>> \/ doi = NA THEN <<>>
    ELSE IF \E i \in 1..Len(doi) : doi[i] = "/"
         THEN SubSeq(doi, 1, (CHOOSE i \in 1..Len(doi) :
                                 /\ doi[i] = "/"
                                 /\ \A j \in 1..(i - 1) : doi[j] # "/") - 1)
         ELSE SubSeq(doi, 1, Min(7, Len(doi)))

\* lines 1008-1014: citation_dates, the positions of the citing entries
\* whose pub_date is there and parses, in the order of the list
CitationDates(citings) ==
    SelectSeq([j \in 1..Len(citings) |-> j],
              LAMBDA j : /\ citings[j].pub_date # <<>>
                         /\ FromIsoFormat(citings[j].pub_date) # -1)

\* line 1017: min(citation_dates, key=...) keeps the first of equal dates
FirstCitation(citings) ==
    LET dated == CitationDates(citings)
    IN  CHOOSE k \in 1..Len(dated) :
            /\ \A m \in 1..Len(dated) :
                   FromIsoFormat(citings[dated[k]].pub_date)
                       <= FromIsoFormat(citings[dated[m]].pub_date)
            /\ \A m \in 1..(k - 1) :
                   FromIsoFormat(citings[dated[m]].pub_date)
                       # FromIsoFormat(citings[dated[k]].pub_date)

\* lines 985-1040: what one analysed record appends to
\* first_citation_details
TimingOf(i, analyzed) ==
    IF ~analyzed.crossref \/ analyzed.doi = <<>> THEN <<>>
    ELSE LET analyzed_date == AnalyzedDate(analyzed.date_parts)
             dated == CitationDates(analyzed.citings)
         IN  IF analyzed_date < 0 \/ dated = <<>> THEN <<>>
             ELSE LET first == dated[FirstCitation(analyzed.citings)]
                      first_citation_date ==
                          FromIsoFormat(analyzed.citings[first].pub_date)
                      days_to_first_citation ==
                          first_citation_date - analyzed_date
                      same_prefix ==
                          get_doi_prefix(analyzed.doi)
                              = get_doi_prefix(analyzed.citings[first].doi)
                      same_date == analyzed_date = first_citation_date
                  IN  IF ~(same_prefix /\ same_date)
                         /\ days_to_first_citation >= 0
                      THEN <<[analyzed |-> i, citing |-> first,
                              days_to_first_citation |->
                                  days_to_first_citation]>>
                      ELSE <<>>

RECURSIVE TimingLoop(_, _)
TimingLoop(analyzed_metadata, i) ==
    IF i > Len(analyzed_metadata) THEN <<>>
    ELSE TimingOf(i, analyzed_metadata[i])
             \o TimingLoop(analyzed_metadata, i + 1)

\* first_citation_details
calculate_citation_timing_stats(analyzed_metadata) ==
    TimingLoop(analyzed_metadata, 1)

DoiWork == <<"1", "0", ".", "a", "/", "w">>
DoiB == <<"1", "0", ".", "a", "/", "c">>
DoiOther == <<"1", "0", ".", "b", "/", "c">>

Jan(day) == ToDigits(BaseYear) \o <<"-", "0", "1", "-">>
                \o (IF day < 10 THEN <<"0">> ELSE <<>>) \o ToDigits(day)

PubDay == 3

SameDayNote == [doi |-> DoiB, pub_date |-> Jan(PubDay)]
SameDayOther == [doi |-> DoiOther, pub_date |-> Jan(PubDay)]
TenDaysLater == [doi |-> DoiOther, pub_date |-> Jan(PubDay + 10)]
Earlier == [doi |-> DoiOther, pub_date |-> Jan(PubDay - 2)]
Undated == [doi |-> DoiOther, pub_date |-> <<>>]
BadDate == [doi |-> DoiOther, pub_date |-> <<"n", "/", "a">>]

TimingCitings ==
    {<<>>, <<TenDaysLater>>, <<SameDayNote, TenDaysLater>>,
     <<TenDaysLater, SameDayOther>>, <<SameDayOther, SameDayNote>>,
     <<SameDayNote, SameDayOther>>, <<Earlier, TenDaysLater>>,
     <<Undated, BadDate>>, <<BadDate, TenDaysLater>>}

TimingWorks ==
    [crossref : {TRUE}, doi : {DoiWork}, date_parts : {<<BaseYear, 1, PubDay>>},
     citings : TimingCitings]
    \cup [crossref : {TRUE}, doi : {DoiWork},
          date_parts : {<<>>, <<BaseYear>>, <<BaseYear, 2>>, <<BaseYear, 13, 1>>},
          citings : {<<TenDaysLater>>}]
    \cup {[crossref |-> FALSE, doi |-> <<>>, date_parts |-> <<>>,
           citings |-> <<TenDaysLater>>]}

TimingInputs ==
    [pc : {"ready"}, f : {"calculate_citation_timing_stats"},
     x : ListsUpTo(TimingWorks, MaxRecs)]

CallTiming ==
    /\ pf.pc = "ready"
    /\ pf.f = "calculate_citation_timing_stats"
    /\ pf' = [pc |-> "done", f |-> pf.f, x |-> pf.x,
              out |-> calculate_citation_timing_stats(pf.x)]
    /\ FnFrame

\* the analysed work has a DOI and a publication date
Datable(w) == w.crossref /\ w.doi # <<>> /\ AnalyzedDate(w.date_parts) >= 0

\* the citing edges of w that are considered: dated, and not sharing both
\* the DOI prefix and the publication date of w
Considered(w) ==
    {j \in 1..Len(w.citings) :
        /\ w.citings[j].pub_date # <<>>
        /\ FromIsoFormat(w.citings[j].pub_date) # -1
        /\ ~(/\ get_doi_prefix(w.citings[j].doi) = get_doi_prefix(w.doi)
             /\ FromIsoFormat(w.citings[j].pub_date)
                    = AnalyzedDate(w.date_parts))}

\* days from the publication of w to its citing edge j
DaysTo(w, j) == FromIsoFormat(w.citings[j].pub_date) - AnalyzedDate(w.date_parts)

\* the time to first citation of w over the considered edges
TimeToFirst(w) ==
    CHOOSE d \in {DaysTo(w, j) : j \in Considered(w)} :
        \A j \in Considered(w) : d <= DaysTo(w, j)

\* C22: the time to first citation of an analysed work is the number of
\* days from its publication date to the earliest publication date among
\* its citing edges, the edges that share both its DOI prefix and its
\* publication date being left out of consideration; every recorded value
\* is >= 0 and none comes from an excluded pair.
C22_TimeToFirstCitation ==
    (pf.pc = "done" /\ pf.f = "calculate_citation_timing_stats") =>
        /\ \A k \in 1..Len(pf.out) :
               LET w == pf.x[pf.out[k].analyzed]
               IN  /\ pf.out[k].days_to_first_citation >= 0
                   /\ pf.out[k].citing \in Considered(w)
                   /\ pf.out[k].days_to_first_citation = TimeToFirst(w)
        /\ \A i \in 1..Len(pf.x) :
               (/\ Datable(pf.x[i])
                /\ Considered(pf.x[i]) # {}
                /\ TimeToFirst(pf.x[i]) >= 0)
                   => \E k \in 1..Len(pf.out) :
                          /\ pf.out[k].analyzed = i
                          /\ pf.out[k].days_to_first_citation
                                 = TimeToFirst(pf.x[i])

(***************************************************************************)
(* The publication window of a run (analyze_journal, src/app.py:4065-4083, *)
(* without the special mode): the dates given to                           *)
(* fetch_articles_by_issn_period, which puts them into the registry's      *)
(* from-pub-date / until-pub-date filter (line 570).  A date is the triple *)
(* of its year, month and day.                                             *)
(***************************************************************************)
NoDateGiven == <<0, 0, 0>>

\* min(years), max(years) of a non-empty ascending list
MinYear(years) == years[1]
MaxYear(years) == years[Len(years)]

\* lines 4067-4071 and 4083: the years, whether analyze_journal returns at
\* line 4069, and the two dates of the filter
analysis_window(period_str) ==
    LET years == parse_period(period_str).years
    IN  IF years = <<>>
        THEN [years |-> years, returned |-> TRUE,
              from_date |-> NoDateGiven, until_date |-> NoDateGiven]
        ELSE [years |-> years, returned |-> FALSE,
              from_date |-> <<MinYear(years), 1, 1>>,
              until_date |-> <<MaxYear(years), 12, 31>>]

\* a date is not later than another
DateLeq(a, b) ==
    \/ a[1] < b[1]
    \/ a[1] = b[1] /\ a[2] < b[2]
    \/ a[1] = b[1] /\ a[2] = b[2] /\ a[3] <= b[3]

\* line 570: the filter asks for the works published from from_date to
\* until_date, both included
InFilter(w, date) == DateLeq(w.from_date, date) /\ DateLeq(date, w.until_date)

WindowInputs ==
    {[pc |-> "ready", f |-> "analysis_window", x |-> Joined(cs), y |-> cs] :
        cs \in ListsUpTo(Components, MaxParts)}

\* lines 4067-4083: the period is parsed and the window is built
CallWindow ==
    /\ pf.pc = "ready"
    /\ pf.f = "analysis_window"
    /\ pf' = [pc |-> "done", f |-> pf.f, x |-> pf.x, y |-> pf.y,
              out |-> analysis_window(pf.x)]
    /\ FnFrame

\* publication dates a work of the journal may have
PubDates ==
    {<<y, md[1], md[2]>> : y \in 1898..2102,
                           md \in {<<1, 1>>, <<6, 15>>, <<12, 31>>}}

\* C29: the dates of the window given to fetch_articles_by_issn_period all
\* lie in years of the set parse_period returned; for '2020-2022,2024' no
\* date of 2023 is asked for.
C29_WindowOnlyParsedYears ==
    (pf.pc = "done" /\ pf.f = "analysis_window" /\ ~pf.out.returned) =>
        \A date \in PubDates :
            InFilter(pf.out, date) =>
                \E i \in 1..Len(pf.out.years) : pf.out.years[i] = date[1]

\* the window holds every date of every parsed year
C29_WindowCoversParsedYears ==
    (pf.pc = "done" /\ pf.f = "analysis_window" /\ ~pf.out.returned) =>
        \A date \in PubDates :
            (\E i \in 1..Len(pf.out.years) : pf.out.years[i] = date[1])
                => InFilter(pf.out, date)

FnInit ==
    /\ FnRest
    /\ \/ pf \in ExtractStatsInputs
       \/ pf \in ParsePeriodInputs
       \/ pf \in ValidateInputs
       \/ pf \in HIndexInputs
       \/ pf \in JscrInputs
       \/ pf \in GiniInputs
       \/ pf \in HalfLifeInputs
       \/ pf \in OverlapInputs
       \/ pf \in TimingInputs
       \/ pf \in WindowInputs

FnNext ==
    \/ CallExtractStats
    \/ CallParsePeriod
    \/ CallValidate
    \/ CallHIndex
    \/ CallJscr
    \/ CallGini
    \/ CallHalfLife
    \/ CallOverlaps
    \/ CallTiming
    \/ CallWindow

SpecFn == FnInit /\ [][FnNext]_vars

(***************************************************************************)
(* Properties of the fetch layer                                           *)
(***************************************************************************)
\* a finished call of a fetch function on a key that was not cached when it
\* was called, and all of whose HTTP attempts got a status other than 200 or
\* raised
AllFailedCall(f) ==
    /\ f.pc = "done"
    /\ f.fn \in {"journal", "crossref", "openalex"}
    /\ f.uncached
    /\ f.all_failed

\* such a call made RETRIES requests, RETRIES failure calls and no success
\* call of the delayer, stored nothing and returned its sentinel
ExhaustedRetries(f) ==
    /\ f.nreq = RETRIES
    /\ f.nfail = RETRIES
    /\ f.nsucc = 0
    /\ ~f.stored
    /\ ~InCache(f.fn, f.key)
    /\ f.result = IF f.fn = "journal" THEN "journal_not_found" ELSE "None"

\* C3 as stated: every call of get_journal_name, get_crossref_metadata or
\* get_openalex_metadata on an uncached key whose HTTP attempts all fail
\* issues exactly RETRIES requests, calls the delayer's failure path RETRIES
\* times and its success path never, stores nothing and returns its sentinel.
C3_AllFailExactlyR ==
    \A t \in Workers : AllFailedCall(fr[t]) => ExhaustedRetries(fr[t])

\* C3 amended: the same, for every uncached key but the empty DOI and the
\* placeholder 'N/A', which the two DOI fetches refuse without a request.
C3_AllFailExactlyR_ProperKey ==
    /\ \A t \in Workers :
          AllFailedCall(fr[t]) /\ ~Refused(fr[t].fn, fr[t].key)
             => ExhaustedRetries(fr[t])
    /\ \A t \in Workers :
          AllFailedCall(fr[t]) /\ Refused(fr[t].fn, fr[t].key)
             => fr[t].nreq = 0 /\ fr[t].nfail = 0 /\ fr[t].result = "None"

\* a DOI fetch on a proper uncached key has used up its attempts
C3_Witness ==
    /\ AllFailedCall(fr[Main])
    /\ fr[Main].fn = "crossref"
    /\ fr[Main].key = UrlA
    /\ fr[Main].nreq = RETRIES

\* C4: in the three single-entity fetches the first attempt that gets HTTP
\* 200 with parseable JSON ends the retry loop: success is recorded once for
\* it, and no request and no failure call of the delayer follows it.
C4_First200EndsLoop ==
    \A t \in Workers :
        LET f == fr[t]
        IN  f.first200 > 0 =>
              /\ f.nreq = f.first200
              /\ f.nfail = f.first200 - 1
              /\ f.pc = "wait" => f.ok
              /\ f.pc = "done" => f.nsucc = 1

\* the step is a call of delayer.wait by thread t
IsWaitCall(t) == fr[t].pc = "wait" /\ fr'[t].pc # "wait"

\* C5: wait(success) sets the index to 0 on success and to
\* min(index + 1, last index) on failure, and returns the delay at the new
\* index of the ascending table; the index stays within the table.
C5_DelayerStep ==
    /\ [](/\ delay_index \in 0..(Len(DELAYS) - 1)
          /\ \A i \in 1..(Len(DELAYS) - 1) : DELAYS[i] < DELAYS[i + 1])
    /\ [][\A t \in Workers : IsWaitCall(t) =>
             /\ delay_index' = IF fr[t].ok THEN 0
                               ELSE IF delay_index + 1 <= Len(DELAYS) - 1
                                    THEN delay_index + 1 ELSE Len(DELAYS) - 1
             /\ last_wait'.success = fr[t].ok
             /\ last_wait'.delay = DELAYS[delay_index' + 1]]_vars

\* a failure call met the cap of the table
C5_Witness ==
    /\ delay_index = Len(DELAYS) - 1
    /\ fails_since > Len(DELAYS) - 1
    /\ ~last_wait.success
    /\ last_wait.delay = 20

\* C9: at the start of each run of analyze_journal the four cache maps are
\* empty.
C9_CachesFreshEachRun ==
    phase = "journal" /\ fr[Main].pc = "idle" =>
        /\ crossref_cache = <<>>
        /\ openalex_cache = <<>>
        /\ unified_cache = <<>>
        /\ citing_cache = <<>>

\* lowercase, trimmed and starting with "10."
IsNormalizedDoi(k) == k = Lower(k) /\ k = Strip(k) /\ StartsWith(k, TenDot)

\* C10: every key of the four cache maps is a normalized DOI.
C10_KeysNormalized ==
    \A k \in DOMAIN crossref_cache \cup DOMAIN openalex_cache
             \cup DOMAIN unified_cache \cup DOMAIN citing_cache :
        IsNormalizedDoi(k)

\* C14: a run that is marked complete offers a buffer that holds a workbook,
\* the full report or the one-sheet error report
C14_CompleteRunHasWorkbook ==
    analysis_complete => excel_buffer \in {"full_report", "error_report"}

\* C30: over any sequence of runs, whenever analysis_complete is true the
\* results and the buffer are both set and both come from the most recent
\* run; a run that ended early leaves analysis_complete false, so what an
\* earlier run left behind is not shown as its outcome.
C30_CompleteMeansThisRun ==
    analysis_complete =>
        /\ excel_buffer # "None"
        /\ analysis_results # 0
        /\ analysis_results = run
        /\ buffer_run = run

\* a second run has ended early while the results and the buffer of the
\* first are still in the state
C30_Witness ==
    /\ phase = "ready"
    /\ run = 2
    /\ ~analysis_complete
    /\ analysis_results = 1
    /\ buffer_run = 1
    /\ excel_buffer # "None"

\* the strictly increasing maps from the positions of v to those of x
Embeddings(v, x) ==
    {g \in [1..Len(v) -> 1..Len(x)] :
        \A i, j \in 1..Len(v) : i < j => g[i] < g[j]}

\* C16: every DOI of the validated list is lowercase, trimmed and starts with
\* "10."; the validated items are input items in input order, each with its
\* DOI lowercased and trimmed, so that none came from an item without such a
\* DOI; the skip count is the number of items left out; validating the
\* result again changes nothing
C16_ValidateAndClean ==
    pf.pc = "done" /\ pf.f = "validate_and_clean_data" =>
        LET v == pf.out.validated
        IN  /\ \A i \in 1..Len(v) : IsNormalizedDoi(v[i].DOI)
            /\ \E g \in Embeddings(v, pf.x) :
                  \A i \in 1..Len(v) :
                      /\ v[i].DOI = Strip(Lower(pf.x[g[i]].DOI))
                      /\ v[i].year = pf.x[g[i]].year
            /\ pf.out.skipped_count = Len(pf.x) - Len(v)
            /\ pf.out2 = v

\* a list with an item that is kept after its DOI was cleaned and an item
\* that is left out
C16_Witness ==
    /\ pf.pc = "done"
    /\ pf.f = "validate_and_clean_data"
    /\ Len(pf.x) = 2
    /\ Len(pf.out.validated) = 1
    /\ pf.out.validated[1].DOI # pf.x[1].DOI
    /\ pf.out.validated[1].DOI # pf.x[2].DOI

\* the half of a unified record agrees with a per-API cache wherever that
\* cache has the DOI
HalfAgrees(half, cache, d) == d \in DOMAIN cache => half = cache[d]

\* C26: whenever unified_cache holds a record for a DOI, its registry half is
\* the entry of crossref_cache for that DOI if there is one and its graph half
\* is the entry of openalex_cache if there is one; a later successful fetch
\* into a per-API cache never leaves None in the unified record.
C26_UnifiedAgreesWithCaches ==
    \A d \in DOMAIN unified_cache :
        /\ HalfAgrees(unified_cache[d].crossref, crossref_cache, d)
        /\ HalfAgrees(unified_cache[d].openalex, openalex_cache, d)

\* the registry half never disagrees: no function fetches the registry record
\* of an analyzed DOI after get_unified_metadata
C26_RegistryHalfAgrees ==
    \A d \in DOMAIN unified_cache :
        HalfAgrees(unified_cache[d].crossref, crossref_cache, d)

(***************************************************************************)
(* Properties of the pool                                                  *)
(***************************************************************************)
\* C2: once a DOI is in crossref_cache or openalex_cache, no thread issues a
\* further HTTP request for it to that API.
C2_NoRequestForCachedDoi ==
    \A t \in Workers :
        fr[t].fn \in {"crossref", "openalex"} => ~fr[t].refetch

\* C6: the index is one cursor shared by all threads: the delay applied to a
\* failing call is DELAYS[min(k, last index)], k the number of failure calls
\* by any thread since the latest success call by any thread, and a success
\* call by any thread brings the pace back to the first delay.
C6_SharedCursor ==
    /\ delay_index = IF fails_since <= Len(DELAYS) - 1
                     THEN fails_since ELSE Len(DELAYS) - 1
    /\ ~last_wait.success =>
          /\ fails_since >= 1
          /\ last_wait.delay = DELAYS[delay_index + 1]
    /\ last_wait.success => fails_since = 0 /\ last_wait.delay \in {0, DELAYS[1]}

\* two threads in the middle of their retry loops have both added to the
\* count of failures that sets the delay
C6_Witness ==
    /\ \E t1, t2 \in Workers :
          /\ t1 # t2
          /\ fr[t1].pc = "loop" /\ fr[t1].nfail >= 1
          /\ fr[t2].pc = "loop" /\ fr[t2].nfail >= 1
          /\ fails_since = fr[t1].nfail + fr[t2].nfail
    /\ fails_since >= 3
    /\ last_wait.delay = DELAYS[fails_since + 1]

(***************************************************************************)
(* The two locks (src/app.py:255-266, 276-284) under the fetch workers.    *)
(* In SpecLocks every caller repeats what an attempt of a fetch function   *)
(* does (lines 400-412): wait_if_needed, the HTTP request, delayer.wait.   *)
(* rl_pc tells where the caller is: "out" about to call wait_if_needed,    *)
(* "sleep" asleep in it, "delay" at its request and about to call          *)
(* delayer.wait, "dl_sleep" asleep in it; ncalls counts the delayer calls. *)
(***************************************************************************)
\* a `with self.lock` block that keeps the lock when it is left
LockKept(t) == t

\* lines 256, 277: leaving the `with self.lock` block releases the lock
LockReleased(t) == 0

\* time.sleep(delay) of line 283, DELAYS being in tenths of a second
DelayTicks(idx) == (Delay(idx) * TicksPerSecond + 9) \div 10

LocksFrame ==
    UNCHANGED <<cacheVars, fr, phase, todo, run, reportVars, pageVars,
                dispVars, pf, fails_since, last_wait>>

\* wait_if_needed when the window has room (lines 256-266)
LockRLPass(t) ==
    /\ rl_pc[t] = "out"
    /\ rl_lock = 0
    /\ Len(Prune(timestamps, clock)) < Capacity
    /\ timestamps' = Append(Prune(timestamps, clock), clock)
    /\ rl_now' = [rl_now EXCEPT ![t] = clock]
    /\ admitted' = Append(admitted, clock)
    /\ rl_lock' = LockReleased(t)
    /\ rl_pc' = [rl_pc EXCEPT ![t] = "delay"]
    /\ UNCHANGED <<clock, rl_wake, delay_index, dl_lock>>
    /\ UNCHANGED ncalls
    /\ LocksFrame

\* lines 264-266 after the sleep
LockRLWake(t) ==
    /\ rl_pc[t] = "sleep"
    /\ clock >= rl_wake[t]
    /\ timestamps' = Append(Tail(timestamps), rl_now[t])
    /\ admitted' = Append(admitted, clock)
    /\ rl_lock' = LockReleased(t)
    /\ rl_pc' = [rl_pc EXCEPT ![t] = "delay"]
    /\ UNCHANGED <<clock, rl_now, rl_wake, delay_index, dl_lock>>
    /\ UNCHANGED ncalls
    /\ LocksFrame

\* lines 277-283: delayer.wait(success) takes the lock, moves the index and
\* sleeps
LockDelayerEnter(t, success) ==
    /\ rl_pc[t] = "delay"
    /\ dl_lock = 0
    /\ ncalls < MaxCalls
    /\ ncalls' = ncalls + 1
    /\ dl_lock' = t
    /\ delay_index' = AdaptiveDelayerWait(delay_index, success)
    /\ rl_wake' = [rl_wake EXCEPT ![t] =
          clock + DelayTicks(AdaptiveDelayerWait(delay_index, success))]
    /\ rl_pc' = [rl_pc EXCEPT ![t] = "dl_sleep"]
    /\ UNCHANGED <<clock, timestamps, rl_lock, rl_now, admitted>>
    /\ LocksFrame

\* line 284: the sleep is over, the lock is released and wait returns
LockDelayerExit(t) ==
    /\ rl_pc[t] = "dl_sleep"
    /\ clock >= rl_wake[t]
    /\ dl_lock' = LockReleased(t)
    /\ rl_pc' = [rl_pc EXCEPT ![t] = "out"]
    /\ UNCHANGED <<clock, timestamps, rl_lock, rl_now, rl_wake, admitted,
                   delay_index>>
    /\ UNCHANGED ncalls
    /\ LocksFrame

LocksNext ==
    \/ \E t \in Callers : LockRLPass(t)
    \/ \E t \in Callers : RLBlock(t)
    \/ \E t \in Callers : LockRLWake(t)
    \/ \E t \in Callers, success \in BOOLEAN : LockDelayerEnter(t, success)
    \/ \E t \in Callers : LockDelayerExit(t)
    \/ Tick

SpecLocks == SessionInit /\ [][LocksNext]_vars

\* caller t waits for a lock that another thread holds
WaitsForLock(t) ==
    \/ rl_pc[t] = "out" /\ rl_lock # 0
    \/ rl_pc[t] = "delay" /\ dl_lock # 0

\* the longest sleep a lock holder makes, in ticks
LongestSleep ==
    IF DelayTicks(LastIndex) > TicksPerSecond THEN DelayTicks(LastIndex)
    ELSE TicksPerSecond

\* caller t is in a sleep that ends within the longest sleep
Asleep(t) ==
    /\ rl_pc[t] \in {"sleep", "dl_sleep"}
    /\ rl_wake[t] <= clock + LongestSleep

\* C25: no thread holds the Rate Limiter lock and the Adaptive Delayer lock
\* at the same time, and the workers are never all blocked on the locks: a
\* held lock is held by a thread that is in a sleep of bounded length and
\* waits for no lock, so some worker is always free to go on.
C25_NoNestedLocksNoDeadlock ==
    /\ \A t \in Callers : ~(rl_lock = t /\ dl_lock = t)
    /\ rl_lock # 0 => Asleep(rl_lock) /\ rl_pc[rl_lock] = "sleep"
    /\ dl_lock # 0 => Asleep(dl_lock) /\ rl_pc[dl_lock] = "dl_sleep"
    /\ \E t \in Callers : ~WaitsForLock(t)

\* both locks are held, by two threads, while a third party could only wait:
\* one caller sleeps in the limiter, another in the delayer
C25_Witness ==
    /\ rl_lock # 0
    /\ dl_lock # 0
    /\ rl_lock # dl_lock

(***************************************************************************)
(* The limiter under concurrent callers                                    *)
(***************************************************************************)
RLNext ==
    \/ \E t \in Callers : RLPass(t)
    \/ \E t \in Callers : RLBlock(t)
    \/ \E t \in Callers : RLWake(t)
    \/ Tick

SpecRL == SessionInit /\ [][RLNext]_vars

\* C1: with capacity N shared by any number of threads, at most N calls of
\* wait_if_needed return within any window of one second.
C1_AtMostNPerWindow == Len(admitted) <= Capacity


====
